---- MODULE Spec2Model ----
(***************************************************************************)
(* A model of the authentication and onboarding service                    *)
(* (cropfresh-service-auth): the OTP engine, the login lockout engine,     *)
(* sessions, the team membership service and the hauler registration       *)
(* state machine.  Each subsystem has its own next-state relation and its  *)
(* own specification over the shared initial state.                        *)
(*                                                                         *)
(* Request handlers are modelled as processes that suspend at the points   *)
(* where the TypeScript code awaits the key-value store or the database:   *)
(* one action per await (or per run of awaits that touch nothing another   *)
(* request can see).                                                       *)
(***************************************************************************)
EXTENDS Integers, Sequences, FiniteSets, TLC

(***************************************************************************)
(* Bounds of the model.                                                    *)
(***************************************************************************)
\* ticks of the clock per rate-limit / lockout window (clock resolution)
TicksPerWindow == 2
\* the clock stops after this many ticks
MaxClock == 3
\* concurrent requests of the OTP engine
OtpProcs == {"r1", "r2"}
\* generateOTP and verifyOTP calls in one run
MaxOtpCalls == 5
\* RequestLoginOtp and VerifyLoginOtp calls in one run
MaxLoginCalls == 5
\* team management calls in one run
MaxTeamCalls == 3
\* hauler registration step and submit calls in one run
MaxHaulerCalls == 4
MaxAgentCalls == 3
MaxAdminCalls == 2
MaxRegCalls == 4
MaxAcctCalls == 6
TickMinutes == 30
MaxAcctClock == 60
MaxResetCalls == 4
MaxInviteCalls == 4
MaxTrainCalls == 4
MaxPinCalls == 3
InviteTickHours == 24
MaxInviteClock == 24

\* the keys of the store are per phone (otp:rate:<phone>, otp:farmer:<phone>)
OtpPhones == {"p1"}
\* crypto.randomInt(100000, 999999) draws from 100000..999998
OtpCodes == {100000, 999998}

NoVal == "none"
NoTTL == -1

(***************************************************************************)
(* Program constants.                                                      *)
(***************************************************************************)
OTP_TTL_SECONDS == 600
RATE_LIMIT_WINDOW_SECONDS == 600
MAX_ATTEMPTS_PER_WINDOW == 3

VARIABLES
    now,         \* the current time, in seconds
    rateCount,   \* otp:rate:<phone>, 0 when the key is absent
    rateExpiry,  \* expiry instant of otp:rate:<phone>, NoTTL when none is set
    otpHash,     \* otp:farmer:<phone>, NoVal when absent
    otpExpiry,   \* expiry instant of otp:farmer:<phone>
    otpProc,     \* the OTP engine's request slots
    otpCalls,    \* generateOTP and verifyOTP calls started
    rateEpoch,   \* history: how many times otp:rate:<phone> was created
    genLog,      \* history: per phone, the admitted (code-returning) calls
    otpSerial,   \* history: per phone, codes issued so far
    otpTag,      \* history: serial of the issuance otp:farmer:<phone> holds
    wins,        \* history: per phone, serials verifyOTP returned true for
    attempts,       \* login:attempts:<phone>, 0 when the key is absent
    attemptsExpiry, \* expiry instant of login:attempts:<phone>
    lockUntil,      \* login:lockout:<phone>: the instant held, 0 when absent
    lockExpiry,     \* expiry instant of login:lockout:<phone>
    sessions,       \* the Session table, in insertion order
    tokenSerial,    \* tokens signed so far (each jwt.sign gives a new token)
    loginProc,      \* the VerifyLoginOtp requests in flight
    lastLogin,      \* the VerifyLoginOtp answer sent by the step, if any
    loginCalls,     \* RequestLoginOtp and VerifyLoginOtp calls started
    lockDue,        \* history: 1800 s after the failure that locked the phone
    tokenCheck,     \* history: the last VerifyToken answer and the truth
    members,        \* TeamMembership rows of the organization, per user
    teamProc,       \* the team management requests in flight
    teamCalls,      \* team management calls started
    lastTeam,       \* the team management answer sent by the step, if any
    profiles,       \* HaulerProfile rows
    haulerProc,     \* the hauler registration requests in flight
    haulerCalls,    \* hauler step and submit calls started
    submitted,      \* history: submitRegistration answered success
    payProc,        \* AddPaymentDetails calls between their two writes
    lastHauler,     \* the hauler registration answer sent by the step, if any
    zoneRows,       \* committed AgentZoneAssignment rows, in insertion order
    agentProc,      \* the reassignZone transactions in flight
    agentCalls,     \* reassignZone calls started
    verifiedBy,     \* HaulerProfile.verifiedById, NoVal while NULL
    adminProc,      \* the verifyHauler requests in flight
    adminCalls,     \* verifyHauler calls started
    lastAdmin,      \* the verifyHauler answer sent by the step, if any
    buyerEmail,     \* User rows of buyers: the email of the row of a phone
    buyerReg,       \* buyer_reg:<phone>: the email of the pending registration
    buyerOtp,       \* an OTP issued for the phone is waiting to be verified
    regProc,        \* the RegisterBuyer requests in flight
    regCalls,       \* RegisterBuyer and VerifyBuyerOtp calls started
    lastReg,        \* the RegisterBuyer answer sent by the step, if any
    bundleBy,       \* history: the call that wrote buyer_reg:<phone>
    otpBy,          \* history: the call whose OTP waits to be verified
    acctNow,        \* the time of the account requests, in minutes
    acctUsers,      \* User rows: attempts, lockedUntil, passwordHash, pinHash
    acctSessions,   \* Session rows of these users, in insertion order
    resetTokens,    \* password_reset_tokens rows, in insertion order
    acctProc,       \* the login and password reset requests in flight
    acctCalls,      \* login and password reset calls started
    compared,       \* history: wrong passwords compared since the last
                    \* successful login or lock of the user
    roleChanges,    \* TeamRoleChange rows, in insertion order
    agentStatus,    \* AgentProfile rows (status, trainingCompletedAt) with
                    \* the temporaryPin of their User rows
    trainProc,      \* the completeTraining / deactivateAgent requests in flight
    trainCalls,     \* completeTraining / deactivateAgent calls started
    lastTrain,      \* the answer of such a call sent by the step, if any
    pinHash,        \* User.pinHash of the agent and the farmer
    pinCalls,       \* setPin / SetPin calls made
    lastPin,        \* the answer of the setPin / SetPin call of the step
    lastAcct,       \* the login or reset answer sent by the step, if any
    inviteNow,      \* the time of the invitation requests, in hours
    invites,        \* TeamInvitation rows, in insertion order
    inviteUsers,    \* the emails of the User rows acceptInvitation created
    inviteSerial,   \* raw invitation tokens generated so far
    inviteProc,     \* the invitation requests in flight
    inviteCalls,    \* invitation calls started
    lastInvite      \* the invitation answer sent by the step, if any

otpVars == <<rateCount, rateExpiry, otpHash, otpExpiry, otpProc, otpCalls,
             rateEpoch, genLog, otpSerial, otpTag, wins>>

loginVars == <<attempts, attemptsExpiry, lockUntil, lockExpiry, sessions,
               tokenSerial, loginProc, loginCalls, lockDue, tokenCheck>>

teamVars == <<members, roleChanges, teamProc, teamCalls, lastTeam>>

haulerVars == <<profiles, haulerProc, haulerCalls, submitted, payProc,
                lastHauler>>

agentVars == <<zoneRows, agentProc, agentCalls, agentStatus, trainProc,
               trainCalls, lastTrain>>

\* the tables and requests of the later sections
adminVars == <<verifiedBy, adminProc, adminCalls, lastAdmin>>

regVars == <<buyerEmail, buyerReg, buyerOtp, regProc, regCalls, lastReg,
             bundleBy, otpBy>>

acctVars == <<acctNow, acctUsers, acctSessions, resetTokens, acctProc,
              acctCalls, compared, lastAcct>>

inviteVars == <<inviteNow, invites, inviteUsers, inviteSerial, inviteProc,
                inviteCalls, lastInvite>>

pinVars == <<pinHash, pinCalls, lastPin>>

restVars == <<agentVars, adminVars, regVars, acctVars, inviteVars, pinVars>>

vars == <<now, otpVars, loginVars, lastLogin, teamVars, haulerVars, restVars>>

\* what the requests of one subsystem leave alone
notOtp == <<loginVars, lastLogin, teamVars, haulerVars, restVars>>
notLogin == <<teamVars, haulerVars, restVars>>
notTeam == <<now, otpVars, loginVars, lastLogin, haulerVars, restVars>>
notHauler == <<now, otpVars, loginVars, lastLogin, teamVars, restVars>>
coreVars == <<now, otpVars, loginVars, lastLogin, teamVars, haulerVars>>
trainStateVars == <<agentStatus, trainProc, trainCalls, lastTrain>>
notAgent == <<coreVars, adminVars, regVars, acctVars, inviteVars, pinVars>>
notAdmin == <<now, otpVars, loginVars, lastLogin, teamVars, agentVars,
              haulerProc, haulerCalls, submitted, payProc, regVars, acctVars,
              inviteVars, pinVars>>
notReg == <<coreVars, agentVars, adminVars, acctVars, inviteVars, pinVars>>
notAcct == <<coreVars, agentVars, adminVars, regVars, inviteVars, pinVars>>
notInvite == <<coreVars, agentVars, adminVars, regVars, acctVars, pinVars>>
notPin == <<coreVars, agentVars, adminVars, regVars, acctVars, inviteVars>>

(***************************************************************************)
(* The OTP engine: src/src/services/otp-service.ts                         *)
(***************************************************************************)

\* seconds per tick of the clock in the OTP specification
OtpTick == RATE_LIMIT_WINDOW_SECONDS \div TicksPerWindow

\* crypto.createHash('sha256').update(otp).digest('hex'): injective on the
\* codes of the model (no collisions), and never the code itself
SHA256(code) == <<"sha256", code>>

\* a key of the store is live while it has no TTL or its TTL has not run out
Live(expiry, t) == expiry = NoTTL \/ t < expiry

IdleOtp == [pc |-> "idle", phone |-> NoVal, code |-> 0, attempts |-> 0,
            stored |-> NoVal, tag |-> 0]

\* otp-service.ts:39
RateLimitExceededBug(n) == n > MAX_ATTEMPTS_PER_WINDOW + 1
RateLimitExceeded(n) == n > MAX_ATTEMPTS_PER_WINDOW

\* valkey.incr(rateLimitKey): atomic; an expired or absent key restarts at 1
\* without a TTL
GenIncr(q, p) ==
    /\ otpProc[q].pc = "idle"
    /\ otpCalls < MaxOtpCalls
    /\ otpCalls' = otpCalls + 1
    /\ LET fresh == rateCount[p] = 0 \/ ~Live(rateExpiry[p], now)
           n == IF fresh THEN 1 ELSE rateCount[p] + 1
       IN /\ rateCount' = [rateCount EXCEPT ![p] = n]
          /\ rateExpiry' = [rateExpiry EXCEPT ![p] = IF fresh THEN NoTTL ELSE @]
          /\ rateEpoch' = [rateEpoch EXCEPT ![p] = IF fresh THEN @ + 1 ELSE @]
          /\ genLog' = [genLog EXCEPT ![p] =
                IF RateLimitExceeded(n) THEN @
                ELSE Append(@, [at |-> now,
                                epoch |-> IF fresh THEN rateEpoch[p] + 1
                                          ELSE rateEpoch[p]])]
          /\ otpProc' = [otpProc EXCEPT ![q] =
                [IdleOtp EXCEPT !.pc = "gen_check", !.phone = p,
                                !.attempts = n]]
    /\ UNCHANGED <<now, otpHash, otpExpiry, otpSerial, otpTag,
                   wins, notOtp>>

\* if (attempts === 1) await valkey.expire(...); if (attempts > MAX) return
\* {otp: null}: the rate-limited call returns here
GenCheck(q) ==
    /\ otpProc[q].pc = "gen_check"
    /\ LET p == otpProc[q].phone
           a == otpProc[q].attempts
           present == rateCount[p] > 0 /\ Live(rateExpiry[p], now)
       IN /\ rateExpiry' = [rateExpiry EXCEPT ![p] =
                IF a = 1 /\ present THEN now + RATE_LIMIT_WINDOW_SECONDS
                ELSE @]
          /\ otpProc' = [otpProc EXCEPT ![q] =
                IF RateLimitExceeded(a) THEN IdleOtp
                ELSE [@ EXCEPT !.pc = "gen_store"]]
    /\ UNCHANGED <<now, rateCount, otpHash, otpExpiry, otpCalls,
                   rateEpoch, genLog, otpSerial, otpTag, wins, notOtp>>

\* otp = generateNumericOTP(); valkey.setex(otpKey, 600, sha256(otp)); the
\* code is returned whether or not the SMS goes out
GenStore(q, c) ==
    /\ otpProc[q].pc = "gen_store"
    /\ LET p == otpProc[q].phone
       IN /\ otpHash' = [otpHash EXCEPT ![p] = SHA256(c)]
          /\ otpExpiry' = [otpExpiry EXCEPT ![p] = now + OTP_TTL_SECONDS]
          /\ otpSerial' = [otpSerial EXCEPT ![p] = @ + 1]
          /\ otpTag' = [otpTag EXCEPT ![p] = otpSerial[p] + 1]
    /\ otpProc' = [otpProc EXCEPT ![q] = IdleOtp]
    /\ UNCHANGED <<now, rateCount, rateExpiry, otpCalls,
                   rateEpoch, genLog, wins, notOtp>>

\* storedHash = await valkey.get(otpKey)
VerifyGet(q, p, c) ==
    /\ otpProc[q].pc = "idle"
    /\ otpCalls < MaxOtpCalls
    /\ otpCalls' = otpCalls + 1
    /\ LET live == otpHash[p] # NoVal /\ Live(otpExpiry[p], now)
       IN otpProc' = [otpProc EXCEPT ![q] =
             [IdleOtp EXCEPT !.pc = "ver_cmp", !.phone = p, !.code = c,
                !.stored = IF live THEN otpHash[p] ELSE NoVal,
                !.tag = IF live THEN otpTag[p] ELSE 0]]
    /\ UNCHANGED <<now, rateCount, rateExpiry, otpHash, otpExpiry,
                   rateEpoch, genLog, otpSerial, otpTag, wins, notOtp>>

\* otp-service.ts:89-104: the outcome of verifyOTP from what the get returned
VerifyMatches(stored, code) == stored # NoVal /\ stored = SHA256(code)

\* if (!storedHash) return false; if (storedHash === providedHash)
\* { await valkey.del(otpKey); return true } return false
VerifyCmp(q) ==
    /\ otpProc[q].pc = "ver_cmp"
    /\ LET p == otpProc[q].phone
           c == otpProc[q].code
       IN IF VerifyMatches(otpProc[q].stored, c)
          THEN /\ otpHash' = [otpHash EXCEPT ![p] = NoVal]
               /\ wins' = [wins EXCEPT ![p] = Append(@, otpProc[q].tag)]
          ELSE UNCHANGED <<otpHash, wins>>
    /\ otpProc' = [otpProc EXCEPT ![q] = IdleOtp]
    /\ UNCHANGED <<now, rateCount, rateExpiry, otpExpiry, otpCalls,
                   rateEpoch, genLog, otpSerial, otpTag, notOtp>>

OtpTickAct ==
    /\ now < MaxClock * OtpTick
    /\ now' = now + OtpTick
    /\ UNCHANGED <<otpVars, notOtp>>


(***************************************************************************)
(* Login lockout, passwordless login and sessions:                        *)
(*   LoginLockoutService      src/src/services/exotel-service.ts:165-262  *)
(*   RequestLoginOtp, VerifyLoginOtp, VerifyToken                          *)
(*                            src/src/grpc/services/auth.ts                *)
(*   SessionRepository        src/unnamed/part_017:171-272                 *)
(***************************************************************************)
LOGIN_ATTEMPT_TTL_SECONDS == 1800
MAX_FAILED_ATTEMPTS == 3
LOCKOUT_DURATION_SECONDS == 1800
\* auth.ts:382: expiresAt = Date.now() + 30 * 24 * 60 * 60 * 1000 ms
SessionSeconds == 30 * 24 * 60 * 60

\* concurrent login requests
LoginProcs == {"r1", "r2"}
\* phones with a User row, and the phones requests name
Registered == OtpPhones
LoginPhones == Registered \cup {"p9"}

\* seconds per tick of the clock in the login specification
LoginTick == LOCKOUT_DURATION_SECONDS \div TicksPerWindow

\* valkey.incr: the value the counter holds after the increment (an absent
\* or expired key counts from 0)
IncrValue(count, expiry) ==
    IF count = 0 \/ ~Live(expiry, now) THEN 1 ELSE count + 1

\* valkey.get(lockoutKey) parsed as a date: 0 when the key is absent
LockKeyValue(p) ==
    IF lockUntil[p] # 0 /\ Live(lockExpiry[p], now) THEN lockUntil[p] ELSE 0

\* getLockoutStatus(phone).isLocked: lockedUntilStr && lockedUntil > new Date()
IsLockedNever(p) == FALSE
IsLocked(p) == LockKeyValue(p) # 0 /\ LockKeyValue(p) > now

\* getLockoutStatus on a lockout key that holds a past instant deletes the
\* lockout key and the attempts key
StaleLock(p) == LockKeyValue(p) # 0 /\ ~IsLocked(p)

\* recordFailedAttempt: attempts >= MAX_FAILED_ATTEMPTS
ShouldLockLate(a) == a > MAX_FAILED_ATTEMPTS

ShouldLock(a) == a >= MAX_FAILED_ATTEMPTS

\* the failures recorded for the phone: the value of the attempts key, 0
\* when it is absent or expired
RecordedFailures(p) ==
    IF attempts[p] > 0 /\ Live(attemptsExpiry[p], now) THEN attempts[p] ELSE 0

\* the code of a request is the one the store holds for the phone
CodeIsCurrent(p, c) ==
    /\ p \in Registered
    /\ otpHash[p] # NoVal /\ Live(otpExpiry[p], now)
    /\ otpHash[p] = SHA256(c)

\* the lockout recordFailedAttempt wrote for the phone is in force: the key
\* login:lockout:<phone> is present and the instant it holds is ahead
LockActive(p) ==
    /\ lockUntil[p] # 0
    /\ Live(lockExpiry[p], now)
    /\ now < lockUntil[p]

\* prior (history): the failures recorded for the phone when the call
\* recorded its own
IdleLogin == [pc |-> "idle", phone |-> NoVal, code |-> 0, stored |-> NoVal,
              attempts |-> 0, lockedAtStart |-> FALSE, prior |-> 0]

\* the answer of a VerifyLoginOtp call, with what held when it was made
NoAnswer == [phone |-> NoVal, result |-> NoVal, remaining |-> 0,
             lockedAtStart |-> FALSE, codeCurrent |-> FALSE, sid |-> 0,
             sole |-> FALSE, failed |-> FALSE, prior |-> 0,
             lockedUntil |-> 0]

\* the rows of User p that are not soft-deleted
ActiveSessions(ss, p) ==
    {i \in DOMAIN ss : ss[i].user = p /\ ~ss[i].deleted}

\* SessionRepository.findByTokenHash: a row with this hash, deletedAt null
\* and expiresAt > now
FindByTokenHash(h) ==
    \E i \in DOMAIN sessions :
        /\ sessions[i].hash = h
        /\ ~sessions[i].deleted
        /\ sessions[i].expiresAt > now

\* VerifyLoginOtp, to the user lookup: getLockoutStatus, then
\* userRepository.findByPhoneNumber
LoginStart(q, p, c) ==
    /\ loginProc[q].pc = "idle"
    \* a request takes the first free slot
    /\ q = "r1" \/ loginProc["r1"].pc # "idle"
    /\ loginCalls < MaxLoginCalls
    /\ loginCalls' = loginCalls + 1
    /\ lockUntil' = IF StaleLock(p) THEN [lockUntil EXCEPT ![p] = 0]
                    ELSE lockUntil
    /\ attempts' = IF StaleLock(p) THEN [attempts EXCEPT ![p] = 0]
                   ELSE attempts
    /\ loginProc' = [loginProc EXCEPT ![q] =
          IF IsLocked(p) \/ p \notin Registered THEN IdleLogin
          ELSE [IdleLogin EXCEPT !.pc = "verify_get", !.phone = p,
                                 !.code = c,
                                 !.lockedAtStart = LockActive(p)]]
    /\ lastLogin' =
          IF IsLocked(p)
          THEN [NoAnswer EXCEPT !.phone = p, !.result = "ACCOUNT_LOCKED",
                                !.lockedAtStart = LockActive(p),
                                !.codeCurrent = CodeIsCurrent(p, c)]
          ELSE IF p \notin Registered
          THEN [NoAnswer EXCEPT !.phone = p,
                                !.result = "PHONE_NOT_REGISTERED",
                                !.lockedAtStart = LockActive(p)]
          ELSE NoAnswer
    /\ UNCHANGED <<notLogin, now, otpVars, attemptsExpiry, lockExpiry, sessions,
                   tokenSerial, lockDue, tokenCheck>>

\* otpService.verifyOTP: storedHash = await valkey.get(otpKey)
LoginVerifyGet(q) ==
    /\ loginProc[q].pc = "verify_get"
    /\ LET p == loginProc[q].phone
       IN loginProc' = [loginProc EXCEPT ![q] =
             [@ EXCEPT !.pc = "verify_cmp",
                !.stored = IF otpHash[p] # NoVal /\ Live(otpExpiry[p], now)
                           THEN otpHash[p] ELSE NoVal]]
    /\ UNCHANGED <<notLogin, now, otpVars, attempts, attemptsExpiry, lockUntil,
                   lockExpiry, sessions, tokenSerial, loginCalls, lockDue, tokenCheck>>
    /\ lastLogin' = NoAnswer

\* otpService.verifyOTP: the comparison, and valkey.del(otpKey) on a match
LoginVerifyCmp(q) ==
    /\ loginProc[q].pc = "verify_cmp"
    /\ LET p == loginProc[q].phone
           ok == VerifyMatches(loginProc[q].stored, loginProc[q].code)
       IN /\ otpHash' = IF ok THEN [otpHash EXCEPT ![p] = NoVal] ELSE otpHash
          /\ loginProc' = [loginProc EXCEPT ![q] =
                [@ EXCEPT !.pc = IF ok THEN "clear" ELSE "record",
                          !.stored = NoVal, !.code = 0]]
    /\ UNCHANGED <<notLogin, now, rateCount, rateExpiry, otpExpiry, otpProc, otpCalls,
                   rateEpoch, genLog, otpSerial, otpTag, wins, attempts,
                   attemptsExpiry, lockUntil, lockExpiry, sessions,
                   tokenSerial, loginCalls, lockDue,
                   tokenCheck>>
    /\ lastLogin' = NoAnswer

\* recordFailedAttempt: attempts = await valkey.incr(attemptsKey)
LoginRecordIncr(q) ==
    /\ loginProc[q].pc = "record"
    /\ LET p == loginProc[q].phone
           a == IncrValue(attempts[p], attemptsExpiry[p])
       IN /\ attempts' = [attempts EXCEPT ![p] = a]
          /\ attemptsExpiry' = [attemptsExpiry EXCEPT ![p] =
                IF a = 1 THEN NoTTL ELSE @]
          /\ loginProc' = [loginProc EXCEPT ![q] =
                [@ EXCEPT !.pc = "record_fin", !.attempts = a,
                          !.prior = RecordedFailures(p)]]
    /\ UNCHANGED <<notLogin, now, otpVars, lockUntil, lockExpiry, sessions, tokenSerial,
                   loginCalls, lockDue, tokenCheck>>
    /\ lastLogin' = NoAnswer

\* recordFailedAttempt, after the increment: valkey.expire on the first
\* attempt, valkey.setex(lockoutKey, 1800, now + 1800 s) from the third; the
\* handler answers ACCOUNT_LOCKED or INVALID_OTP with remainingAttempts
LoginRecordFinish(q) ==
    /\ loginProc[q].pc = "record_fin"
    /\ LET p == loginProc[q].phone
           a == loginProc[q].attempts
           present == attempts[p] > 0 /\ Live(attemptsExpiry[p], now)
       IN /\ attemptsExpiry' = [attemptsExpiry EXCEPT ![p] =
                IF a = 1 /\ present THEN now + LOGIN_ATTEMPT_TTL_SECONDS
                ELSE @]
          /\ lockUntil' = [lockUntil EXCEPT ![p] =
                IF ShouldLock(a) THEN now + LOCKOUT_DURATION_SECONDS ELSE @]
          /\ lockExpiry' = [lockExpiry EXCEPT ![p] =
                IF ShouldLock(a) THEN now + LOCKOUT_DURATION_SECONDS ELSE @]
          /\ loginProc' = [loginProc EXCEPT ![q] = IdleLogin]
          /\ lastLogin' =
                [NoAnswer EXCEPT !.phone = p,
                   !.lockedAtStart = loginProc[q].lockedAtStart,
                   !.result = IF ShouldLock(a) THEN "ACCOUNT_LOCKED"
                              ELSE "INVALID_OTP",
                   !.remaining = IF ShouldLock(a) THEN 0
                                 ELSE MAX_FAILED_ATTEMPTS - a,
                   !.failed = TRUE, !.prior = loginProc[q].prior,
                   !.lockedUntil = IF ShouldLock(a)
                                   THEN now + LOCKOUT_DURATION_SECONDS ELSE 0]
          /\ lockDue' = [lockDue EXCEPT ![p] =
                IF ShouldLock(a) /\ now >= @
                THEN now + LOCKOUT_DURATION_SECONDS ELSE @]
    /\ UNCHANGED <<notLogin, now, otpVars, attempts, sessions, tokenSerial, loginCalls,
                   tokenCheck>>

\* clearFailedAttempts: valkey.del(attemptsKey); valkey.del(lockoutKey)
LoginClear(q) ==
    /\ loginProc[q].pc = "clear"
    /\ LET p == loginProc[q].phone
       IN /\ attempts' = [attempts EXCEPT ![p] = 0]
          /\ lockUntil' = [lockUntil EXCEPT ![p] = 0]
    /\ loginProc' = [loginProc EXCEPT ![q] = [@ EXCEPT !.pc = "invalidate"]]
    /\ UNCHANGED <<notLogin, now, otpVars, attemptsExpiry, lockExpiry, sessions,
                   tokenSerial, loginCalls, lockDue,
                   tokenCheck>>
    /\ lastLogin' = NoAnswer

\* SessionRepository.invalidateUserSessions: updateMany where userId and
\* deletedAt null, set deletedAt
InvalidateUserSessions(ss, p) ==
    [i \in DOMAIN ss |->
        IF ss[i].user = p /\ ~ss[i].deleted
        THEN [ss[i] EXCEPT !.deleted = TRUE] ELSE ss[i]]

LoginInvalidate(q) ==
    /\ loginProc[q].pc = "invalidate"
    /\ sessions' = InvalidateUserSessions(sessions, loginProc[q].phone)
    /\ loginProc' = [loginProc EXCEPT ![q] = [@ EXCEPT !.pc = "create"]]
    /\ UNCHANGED <<notLogin, now, otpVars, attempts, attemptsExpiry, lockUntil,
                   lockExpiry, tokenSerial, loginCalls, lockDue, tokenCheck>>
    /\ lastLogin' = NoAnswer

\* jwt.sign, SessionRepository.createSession (the row holds the SHA-256 of
\* the token), then the handler answers with the token
LoginCreate(q) ==
    /\ loginProc[q].pc = "create"
    /\ LET p == loginProc[q].phone
           tok == tokenSerial + 1
           ss == Append(sessions,
                    [user |-> p, hash |-> SHA256(tok), deleted |-> FALSE,
                     expiresAt |-> now + SessionSeconds])
       IN /\ tokenSerial' = tok
          /\ sessions' = ss
          /\ loginProc' = [loginProc EXCEPT ![q] = IdleLogin]
          /\ lastLogin' =
                [NoAnswer EXCEPT !.phone = p, !.result = "OK",
                   !.lockedAtStart = loginProc[q].lockedAtStart,
                   !.sid = Len(ss),
                   !.sole = (ActiveSessions(ss, p) = {Len(ss)})]
    /\ UNCHANGED <<notLogin, now, otpVars, attempts, attemptsExpiry, lockUntil,
                   lockExpiry, loginCalls, lockDue, tokenCheck>>

\* RequestLoginOtp: getLockoutStatus, the user lookup (isActive holds for
\* every user of the model), and otpService.generateOTP taken as one step
LoginRequestOtp(p, c) ==
    /\ loginCalls < MaxLoginCalls
    /\ loginCalls' = loginCalls + 1
    /\ lockUntil' = IF StaleLock(p) THEN [lockUntil EXCEPT ![p] = 0]
                    ELSE lockUntil
    /\ attempts' = IF StaleLock(p) THEN [attempts EXCEPT ![p] = 0]
                   ELSE attempts
    /\ IF IsLocked(p) \/ p \notin Registered
       THEN UNCHANGED <<notLogin, rateCount, rateExpiry, otpHash, otpExpiry>>
       ELSE LET a == IncrValue(rateCount[p], rateExpiry[p])
            IN /\ rateCount' = [rateCount EXCEPT ![p] = a]
               /\ rateExpiry' = [rateExpiry EXCEPT ![p] =
                     IF a = 1 THEN now + RATE_LIMIT_WINDOW_SECONDS ELSE @]
               /\ otpHash' = IF RateLimitExceeded(a) THEN otpHash
                             ELSE [otpHash EXCEPT ![p] = SHA256(c)]
               /\ otpExpiry' = IF RateLimitExceeded(a) THEN otpExpiry
                               ELSE [otpExpiry EXCEPT ![p] =
                                        now + OTP_TTL_SECONDS]
    /\ UNCHANGED <<notLogin, now, otpProc, otpCalls, rateEpoch, genLog, otpSerial,
                   otpTag, wins, attemptsExpiry, lockExpiry, sessions,
                   tokenSerial, loginProc, lockDue,
                   tokenCheck>>
    /\ lastLogin' = NoAnswer

\* VerifyToken (auth.ts:65-68): callback(null, {valid: true, userId: '1'})
VerifyToken(t) ==
    /\ tokenCheck' = [asked |-> TRUE, valid |-> TRUE,
                      active |-> FindByTokenHash(SHA256(t))]
    /\ UNCHANGED <<notLogin, now, otpVars, attempts, attemptsExpiry, lockUntil,
                   lockExpiry, sessions, tokenSerial, loginProc, loginCalls,
                   lockDue>>
    /\ lastLogin' = NoAnswer

LoginTickAct ==
    /\ now < MaxClock * LoginTick
    /\ now' = now + LoginTick
    /\ lastLogin' = NoAnswer
    /\ UNCHANGED <<notLogin, otpVars, loginVars>>

(***************************************************************************)
(* Team management:                                                        *)
(*   TeamManagementService    src/src/services/team-management-service.ts  *)
(*   TeamMembershipRepository                                              *)
(*             src/src/protos/cropfresh/auth/FarmProfileResponse.ts:39-216 *)
(* One organization; a membership row is found by (org, user).             *)
(***************************************************************************)
TeamProcs == {"r1", "r2"}
TeamUsers == {"u1", "u2", "u3"}
\* BuyerTeamRole: ADMIN and one of the three other roles
BuyerTeamRole == {"ADMIN", "PROCUREMENT_MANAGER"}
TeamOps == {"updateMemberRole", "deactivateMember", "deleteMember"}

\* findByUserAndOrg returns null
NoMember == [role |-> NoVal, status |-> NoVal]

\* the newRole a request carries (only updateMemberRole has one)
NewRoles(op) == IF op = "updateMemberRole" THEN BuyerTeamRole ELSE {NoVal}

IsActiveAdmin(m, u) == m[u].role = "ADMIN" /\ m[u].status = "ACTIVE"

\* countActiveAdmins: count where role ADMIN and status ACTIVE
CountActiveAdmins(m) == Cardinality({u \in TeamUsers : IsActiveAdmin(m, u)})

\* isLastAdmin: false when the membership is absent or not ADMIN, otherwise
\* adminCount === 1
IsLastAdmin(m, u) ==
    IF m[u] = NoMember \/ m[u].role # "ADMIN" THEN FALSE
    ELSE CountActiveAdmins(m) = 1

\* the requester check of every operation: !requester || role !== ADMIN
Unauthorized(m, caller) == m[caller] = NoMember \/ m[caller].role # "ADMIN"

\* the operations that run isLastAdmin before they write: updateMemberRole
\* on the caller's own ADMIN membership when the new role is not ADMIN;
\* deactivateMember and deleteMember on an ADMIN membership
NeedsLastAdminCheck(op, caller, target, role, newRole) ==
    IF op = "updateMemberRole"
    THEN target = caller /\ role = "ADMIN" /\ newRole # "ADMIN"
    ELSE role = "ADMIN"

\* where a request goes after its checks: updateRole reads the membership
\* again before it writes
WritePc(op) == IF op = "updateMemberRole" THEN "existing" ELSE "write"

\* callerOk (history): the caller's membership was ADMIN and ACTIVE when the
\* request looked it up
\* oldRole: existing.role as updateRole read it
IdleTeam == [pc |-> "idle", op |-> NoVal, target |-> NoVal, newRole |-> NoVal,
             checked |-> FALSE, callerOk |-> FALSE, caller |-> NoVal,
             oldRole |-> NoVal]

NoTeamAnswer == [ok |-> FALSE, error |-> NoVal, op |-> NoVal,
                 checked |-> FALSE, removedAdmin |-> FALSE, adminsLeft |-> 0,
                 callerOk |-> FALSE]

TeamError(op, e) == [NoTeamAnswer EXCEPT !.error = e, !.op = op]

\* updateMemberRole / deactivateMember / deleteMember, to the last-admin
\* check: the requester lookup, the self-action check (not in
\* updateMemberRole) and the target lookup
TeamLookup(q, op, caller, target, newRole) ==
    /\ teamProc[q].pc = "idle"
    \* a request takes the first free slot
    /\ q = "r1" \/ teamProc["r1"].pc # "idle"
    /\ teamCalls < MaxTeamCalls
    /\ teamCalls' = teamCalls + 1
    /\ LET e == IF Unauthorized(members, caller) THEN "UNAUTHORIZED"
                ELSE IF op # "updateMemberRole" /\ target = caller
                THEN "SELF_ACTION"
                ELSE IF members[target] = NoMember THEN "MEMBER_NOT_FOUND"
                ELSE NoVal
       IN IF e # NoVal
          THEN /\ lastTeam' = [TeamError(op, e) EXCEPT
                                   !.callerOk = IsActiveAdmin(members, caller)]
               /\ UNCHANGED teamProc
          ELSE /\ lastTeam' = NoTeamAnswer
               /\ teamProc' = [teamProc EXCEPT ![q] =
                     [IdleTeam EXCEPT
                        !.pc = IF NeedsLastAdminCheck(op, caller, target,
                                     members[target].role, newRole)
                               THEN "guard" ELSE WritePc(op),
                        !.op = op, !.target = target, !.newRole = newRole,
                        !.caller = caller,
                        !.callerOk = IsActiveAdmin(members, caller)]]
    /\ UNCHANGED <<members, roleChanges, notTeam>>

\* membershipRepo.isLastAdmin, and the LAST_ADMIN error
TeamGuard(q) ==
    /\ teamProc[q].pc = "guard"
    /\ IF IsLastAdmin(members, teamProc[q].target)
       THEN /\ lastTeam' = [TeamError(teamProc[q].op, "LAST_ADMIN") EXCEPT
                                !.callerOk = teamProc[q].callerOk]
            /\ teamProc' = [teamProc EXCEPT ![q] = IdleTeam]
       ELSE /\ lastTeam' = NoTeamAnswer
            /\ teamProc' = [teamProc EXCEPT ![q] =
                  [@ EXCEPT !.pc = WritePc(teamProc[q].op),
                            !.checked = TRUE]]
    /\ UNCHANGED <<members, roleChanges, teamCalls, notTeam>>

\* updateRole before its transaction: findUnique of the membership, whose
\* role becomes the audit row's oldRole
TeamExisting(q) ==
    /\ teamProc[q].pc = "existing"
    /\ IF members[teamProc[q].target] = NoMember
       THEN /\ lastTeam' = [TeamError(teamProc[q].op,
                                "Team membership not found") EXCEPT
                                !.callerOk = teamProc[q].callerOk]
            /\ teamProc' = [teamProc EXCEPT ![q] = IdleTeam]
       ELSE /\ lastTeam' = NoTeamAnswer
            /\ teamProc' = [teamProc EXCEPT ![q] =
                  [@ EXCEPT !.pc = "write",
                            !.oldRole = members[teamProc[q].target].role]]
    /\ UNCHANGED <<members, roleChanges, teamCalls, notTeam>>

\* the row after membershipRepo.updateRole / deactivate / softDelete
\* (softDelete deletes the row)
WrittenMember(row, op, newRole) ==
    IF op = "updateMemberRole" THEN [row EXCEPT !.role = newRole]
    ELSE IF op = "deactivateMember" THEN [row EXCEPT !.status = "INACTIVE"]
    ELSE NoMember

\* the TeamRoleChange row updateRole creates in the transaction of the role
\* update; before (history) is the role the membership held when the
\* transaction ran
RoleChange(t, oldRole, newRole, by, before) ==
    [member |-> t, oldRole |-> oldRole, newRole |-> newRole,
     changedBy |-> by, before |-> before]

\* the repository write; on a row that is gone Prisma throws and the request
\* fails
TeamWrite(q) ==
    /\ teamProc[q].pc = "write"
    /\ LET t == teamProc[q].target
           op == teamProc[q].op
           m == [members EXCEPT ![t] =
                    WrittenMember(@, op, teamProc[q].newRole)]
       IN IF members[t] = NoMember
          THEN /\ lastTeam' = [TeamError(op, "RECORD_NOT_FOUND") EXCEPT
                                   !.callerOk = teamProc[q].callerOk]
               /\ UNCHANGED <<members, roleChanges>>
          ELSE /\ members' = m
               /\ roleChanges' =
                     IF op = "updateMemberRole"
                     THEN Append(roleChanges,
                             RoleChange(t, teamProc[q].oldRole,
                                        teamProc[q].newRole,
                                        teamProc[q].caller, members[t].role))
                     ELSE roleChanges
               /\ lastTeam' = [NoTeamAnswer EXCEPT
                     !.ok = TRUE, !.op = op,
                     !.checked = teamProc[q].checked,
                     !.callerOk = teamProc[q].callerOk,
                     !.removedAdmin = (IsActiveAdmin(members, t)
                                        /\ ~IsActiveAdmin(m, t)),
                     !.adminsLeft = CountActiveAdmins(m)]
    /\ teamProc' = [teamProc EXCEPT ![q] = IdleTeam]
    /\ UNCHANGED <<teamCalls, notTeam>>

(***************************************************************************)
(* Hauler registration:                                                    *)
(*   HaulerRegistrationService   src/unnamed/part_004                       *)
(*   HaulerRepository            src/unnamed/part_018                       *)
(***************************************************************************)
HaulerProcs == {"r1", "r2"}
HaulerIds == {"h1", "h2"}
\* uuidv4() of step 1: one token per registration
RegistrationToken == [h1 |-> "token-h1", h2 |-> "token-h2"]
\* the tokens requests present: the issued ones and one never issued
HaulerTokens == {RegistrationToken[h] : h \in HaulerIds} \cup {"token-x"}
\* 'TEMP-' + user.id
TempVehicleNumber == [h1 |-> "TEMP-h1", h2 |-> "TEMP-h2"]
VehicleNumbers == {"KA01AB1234"}
HaulerOps == {"step2", "step3", "step4", "submit"}
StepNumber == [step2 |-> 2, step3 |-> 3, step4 |-> 4, submit |-> 5]

\* no HaulerProfile row; payments is the number of PaymentDetails rows of
\* the user with isPrimary set
NoProfile == [token |-> NoVal, currentStep |-> 0, verificationStatus |-> NoVal,
              stepCompleted |-> FALSE, vehicleNumber |-> NoVal,
              dlNumber |-> NoVal, payments |-> 0]

\* createHaulerUser: the profile stub (vehicleNumber 'TEMP-<id>' and dlNumber
\* 'TEMP' are placeholders)
NewProfile(h) == [token |-> RegistrationToken[h], currentStep |-> 1,
                  verificationStatus |-> "IN_PROGRESS",
                  stepCompleted |-> FALSE, vehicleNumber |-> TempVehicleNumber[h],
                  dlNumber |-> "TEMP", payments |-> 0]

\* findByRegistrationToken: findUnique where registrationToken = token
FindByRegistrationToken(tok) ==
    IF \E h \in HaulerIds : profiles[h] # NoProfile /\ profiles[h].token = tok
    THEN CHOOSE h \in HaulerIds :
            profiles[h] # NoProfile /\ profiles[h].token = tok
    ELSE NoVal

\* vehicleNumberExists: a row with this number (placeholders do not match)
VehicleNumberExists(v) ==
    \E h \in HaulerIds : profiles[h].vehicleNumber = v

\* the registrationToken column after HaulerRepository.submitRegistration
SubmittedTokenKept(tok) == tok
SubmittedToken(tok) == NoVal

\* the registration a token was issued for
TokenOwner(tok) ==
    IF \E h \in HaulerIds : RegistrationToken[h] = tok
    THEN CHOOSE h \in HaulerIds : RegistrationToken[h] = tok
    ELSE NoVal

\* the token was issued for a registration whose submitRegistration has
\* answered success
AfterSubmit(tok) == TokenOwner(tok) # NoVal /\ submitted[TokenOwner(tok)]

\* the vehicle number a request carries (only step 2 has one)
Vehicles(op) == IF op = "step2" THEN VehicleNumbers ELSE {NoVal}

\* the answers of the UPI provider to RazorpayService.validateVpa's request
\* (Razorpay enabled): success, success: false or status 400, another
\* status, no answer (fetch throws); only step 4 calls it
VpaOutcomes(op) ==
    IF op = "step4" THEN {"ok", "invalid", "error", "unreachable"} ELSE {NoVal}

\* validateVpa(...).valid for a well-formed VPA
ValidateVpa(outcome) == outcome \in {"ok", "unreachable"}

\* vpa (history): the provider's answer; resubmit (history): step 2 found the
\* profile at currentStep 2 holding the number the request carries; wrote
\* (history): the repository write of the request was done
IdleHauler == [pc |-> "idle", op |-> NoVal, id |-> NoVal, vehicle |-> NoVal,
               late |-> FALSE, vpa |-> NoVal, resubmit |-> FALSE]

NoHaulerAnswer == [ok |-> FALSE, message |-> NoVal, op |-> NoVal,
                   before |-> 0, late |-> FALSE, vpa |-> NoVal,
                   resubmit |-> FALSE, wrote |-> FALSE]

HaulerFailure(op, msg, late) ==
    [NoHaulerAnswer EXCEPT !.op = op, !.message = msg, !.late = late]

\* verifyOtpAndCreateUser: createHaulerUser
HaulerCreate(h) ==
    /\ profiles[h] = NoProfile
    /\ profiles' = [profiles EXCEPT ![h] = NewProfile(h)]
    /\ lastHauler' = NoHaulerAnswer
    /\ UNCHANGED <<haulerProc, haulerCalls, submitted, payProc, notHauler>>

\* step2VehicleInfo / step3LicenseInfo / step4PaymentInfo /
\* submitRegistration, to the first write or the duplicate check: the token
\* lookup, the validators (valid: they accept the input), in step 4
\* validateVpa and, in submitRegistration, currentStep < 4
HaulerLookup(q, op, tok, v, valid, vpa) ==
    /\ haulerProc[q].pc = "idle"
    \* a request takes the first free slot
    /\ q = "r1" \/ haulerProc["r1"].pc # "idle"
    /\ haulerCalls < MaxHaulerCalls
    /\ haulerCalls' = haulerCalls + 1
    /\ LET h == FindByRegistrationToken(tok)
           late == AfterSubmit(tok)
           msg == IF h = NoVal THEN "Registration session not found"
                  ELSE IF op = "submit" /\ profiles[h].currentStep < 4
                  THEN "Please complete the next step first"
                  ELSE IF op # "submit" /\ ~valid THEN "invalid input"
                  ELSE IF op = "step4" /\ ~ValidateVpa(vpa)
                  THEN "UPI verification failed. Check your UPI ID."
                  ELSE NoVal
       IN IF msg # NoVal
          THEN /\ lastHauler' = [HaulerFailure(op, msg, late) EXCEPT
                                    !.vpa = IF h # NoVal /\ valid THEN vpa
                                            ELSE NoVal]
               /\ UNCHANGED haulerProc
          ELSE /\ lastHauler' = NoHaulerAnswer
               /\ haulerProc' = [haulerProc EXCEPT ![q] =
                     [IdleHauler EXCEPT
                        !.pc = IF op = "step2" THEN "dup" ELSE "write",
                        !.op = op, !.id = h, !.vehicle = v, !.late = late,
                        !.vpa = vpa,
                        !.resubmit = (op = "step2"
                                       /\ profiles[h].currentStep = 2
                                       /\ profiles[h].vehicleNumber = v)]]
    /\ UNCHANGED <<profiles, submitted, payProc, notHauler>>

\* step2VehicleInfo: vehicleNumberExists, 'Vehicle already registered'
HaulerDupCheck(q) ==
    /\ haulerProc[q].pc = "dup"
    /\ IF VehicleNumberExists(haulerProc[q].vehicle)
       THEN /\ lastHauler' = [HaulerFailure("step2",
                                "Vehicle already registered",
                                haulerProc[q].late) EXCEPT
                                !.resubmit = haulerProc[q].resubmit]
            /\ haulerProc' = [haulerProc EXCEPT ![q] = IdleHauler]
       ELSE /\ lastHauler' = NoHaulerAnswer
            /\ haulerProc' = [haulerProc EXCEPT ![q] = [@ EXCEPT !.pc = "write"]]
    /\ UNCHANGED <<profiles, haulerCalls, submitted, payProc, notHauler>>

\* the row after updateVehicleInfo / updateLicenseInfo /
\* paymentDetails.create and completeStep4 / HaulerRepository.submitRegistration
WrittenProfile(row, op, v) ==
    IF op = "step2" THEN [row EXCEPT !.vehicleNumber = v, !.currentStep = 2]
    ELSE IF op = "step3" THEN [row EXCEPT !.dlNumber = "DL", !.currentStep = 3]
    ELSE IF op = "step4"
    THEN [row EXCEPT !.payments = @ + 1, !.currentStep = 4]
    ELSE [row EXCEPT !.verificationStatus = "PENDING_VERIFICATION",
                     !.stepCompleted = TRUE,
                     !.token = SubmittedToken(@)]

\* the unique index of HaulerProfile.vehicleNumber (the database schema):
\* writing number v into row h violates it when another row holds v
VehicleIndexOff(h, v) == FALSE

VehicleNumberTaken(h, v) ==
    \E g \in HaulerIds \ {h} : profiles[g].vehicleNumber = v

\* the update by profile id, and the answer; updateVehicleInfo fails on the
\* unique index (P2002, handlePrismaError) when another row holds the
\* number and step2VehicleInfo answers 'Failed to save vehicle details';
\* submitRegistration answers success only when exotelService.sendSMS does
\* not throw (smsOk)
HaulerWrite(q, smsOk) ==
    /\ haulerProc[q].pc = "write"
    /\ LET h == haulerProc[q].id
           op == haulerProc[q].op
           v == haulerProc[q].vehicle
           clash == op = "step2" /\ VehicleNumberTaken(h, v)
           ok == ~clash /\ (op = "submit" => smsOk)
       IN /\ profiles' = IF clash THEN profiles
                         ELSE [profiles EXCEPT ![h] = WrittenProfile(@, op, v)]
          /\ submitted' = IF op = "submit" /\ ok
                          THEN [submitted EXCEPT ![h] = TRUE] ELSE submitted
          /\ lastHauler' = [NoHaulerAnswer EXCEPT
                !.ok = ok, !.op = op, !.late = haulerProc[q].late,
                !.vpa = haulerProc[q].vpa,
                !.resubmit = haulerProc[q].resubmit, !.wrote = ~clash,
                !.message = IF ok THEN NoVal
                           ELSE IF clash
                           THEN "Failed to save vehicle details"
                           ELSE "Submission failed. Please try again.",
                !.before = profiles[h].currentStep]
    /\ haulerProc' = [haulerProc EXCEPT ![q] = IdleHauler]
    /\ UNCHANGED <<haulerCalls, payProc, notHauler>>

\* AddPaymentDetails (isPrimary: true) for the user of a profile, first
\* write: updateMany sets isPrimary false on the user's primary rows
AddPaymentUnset(h) ==
    /\ profiles[h] # NoProfile
    /\ haulerCalls < MaxHaulerCalls
    /\ haulerCalls' = haulerCalls + 1
    /\ profiles' = [profiles EXCEPT ![h] = [@ EXCEPT !.payments = 0]]
    /\ payProc' = [payProc EXCEPT ![h] = @ + 1]
    /\ lastHauler' = NoHaulerAnswer
    /\ UNCHANGED <<haulerProc, submitted, notHauler>>

\* AddPaymentDetails, second write: create with isPrimary: true
AddPaymentCreate(h) ==
    /\ payProc[h] > 0
    /\ profiles' = [profiles EXCEPT ![h] = [@ EXCEPT !.payments = @ + 1]]
    /\ payProc' = [payProc EXCEPT ![h] = @ - 1]
    /\ lastHauler' = NoHaulerAnswer
    /\ UNCHANGED <<haulerProc, haulerCalls, submitted, notHauler>>

(***************************************************************************)
(* Field agents: src/src/repositories/agent-repository.ts.  The database   *)
(* is PostgreSQL and prisma.$transaction names no isolation level, so a    *)
(* transaction runs read committed: a statement sees the rows committed    *)
(* when it starts, an update waits for the row locks of other              *)
(* transactions and re-checks its condition on the rows it waited for,     *)
(* and rows written by a transaction are seen by others once it commits.   *)
(***************************************************************************)
AgentProcs == {"r1", "r2"}
AgentIds == {"a1", "a2"}
Zones == {"z1", "z2"}
\* the effectiveFrom dates of the calls
AgentDates == {1, 2}

\* effectiveTo of an open assignment (NULL)
OpenEnded == 0

IdleAgent == [pc |-> "idle", agent |-> NoVal, zone |-> NoVal, from |-> 0,
              seen |-> {}, closing |-> {}]

\* where: { agentId, effectiveTo: null }
OpenRows(a) ==
    {i \in DOMAIN zoneRows :
        zoneRows[i].agent = a /\ zoneRows[i].effectiveTo = OpenEnded}

\* an agent exists once createAgent has committed its rows
AgentExists(a) == \E i \in DOMAIN zoneRows : zoneRows[i].agent = a

\* rows updated by a transaction that has not committed
LockedBy(q) == IF agentProc[q].pc = "create" THEN agentProc[q].closing ELSE {}

\* no AgentProfile row, and the row createAgent inserts; completedAt 0 is
\* trainingCompletedAt NULL
\* temporaryPin: User.temporaryPin of the agent is set; tokenSigned
\* (history): firstLogin signed a pin_change token for the user
NoAgentProfile == [status |-> NoVal, completedAt |-> 0,
                   temporaryPin |-> FALSE, tokenSigned |-> FALSE]

NewAgentProfile == [status |-> "TRAINING", completedAt |-> 0,
                    temporaryPin |-> TRUE, tokenSigned |-> FALSE]

\* createAgent: user, profile and first assignment in one transaction, whose
\* rows appear at commit
CreateAgent(a, z) ==
    /\ ~AgentExists(a)
    /\ zoneRows' = Append(zoneRows,
                     [agent |-> a, zone |-> z, effectiveTo |-> OpenEnded])
    /\ agentStatus' = [agentStatus EXCEPT ![a] = NewAgentProfile]
    /\ UNCHANGED <<agentProc, agentCalls, trainProc, trainCalls, lastTrain,
                   notAgent>>

\* the requests of completeTraining and deactivateAgent; stamp is the value
\* of new Date() in updateStatus, one per call; before (history) is the
\* status the call read
TrainProcs == {"r1", "r2"}
TrainOps == {"completeTraining", "deactivateAgent"}

IdleTrain == [pc |-> "idle", op |-> NoVal, agent |-> NoVal, stamp |-> 0,
              before |-> NoVal]

NoTrainAnswer == [ok |-> FALSE, message |-> NoVal, op |-> NoVal,
                  agent |-> NoVal, status |-> NoVal, before |-> NoVal,
                  wrote |-> FALSE, dashboardUnlocked |-> FALSE]

\* completeTraining goes on to updateStatus: the status read is TRAINING
AlwaysInTraining(status) == TRUE

InTraining(status) == status = "TRAINING"

\* completeTraining / deactivateAgent, to updateStatus: findByUserId, 'Agent
\* not found', 'Training already completed'
TrainRead(q, op, a) ==
    /\ trainProc[q].pc = "idle"
    \* a request takes the first free slot
    /\ q = "r1" \/ trainProc["r1"].pc # "idle"
    /\ trainCalls < MaxTrainCalls
    /\ trainCalls' = trainCalls + 1
    /\ LET row == agentStatus[a]
       IN IF row = NoAgentProfile
          THEN /\ lastTrain' = [NoTrainAnswer EXCEPT
                     !.op = op, !.agent = a, !.message = "Agent not found"]
               /\ UNCHANGED trainProc
          ELSE IF op = "completeTraining" /\ ~InTraining(row.status)
          THEN /\ lastTrain' = [NoTrainAnswer EXCEPT
                     !.ok = TRUE, !.op = op, !.agent = a,
                     !.message = "Training already completed",
                     !.status = row.status, !.before = row.status,
                     !.dashboardUnlocked = TRUE]
               /\ UNCHANGED trainProc
          ELSE /\ lastTrain' = NoTrainAnswer
               /\ trainProc' = [trainProc EXCEPT ![q] =
                     [IdleTrain EXCEPT !.pc = "update", !.op = op, !.agent = a,
                                       !.stamp = trainCalls + 1,
                                       !.before = row.status]]
    /\ UNCHANGED <<agentStatus, zoneRows, agentProc, agentCalls, notAgent>>

\* AgentRepository.updateStatus: ACTIVE sets trainingCompletedAt, INACTIVE
\* sets deactivatedAt and the reason
UpdateStatus(row, status, stamp) ==
    IF status = "ACTIVE" THEN [row EXCEPT !.status = status, !.completedAt = stamp]
    ELSE [row EXCEPT !.status = status]

\* completeTraining / deactivateAgent: updateStatus and the answer (the
\* deactivation SMS is best-effort)
TrainUpdate(q) ==
    /\ trainProc[q].pc = "update"
    /\ LET a == trainProc[q].agent
           op == trainProc[q].op
           status == IF op = "completeTraining" THEN "ACTIVE" ELSE "INACTIVE"
       IN /\ agentStatus' = [agentStatus EXCEPT ![a] =
                UpdateStatus(@, status, trainProc[q].stamp)]
          /\ lastTrain' = [NoTrainAnswer EXCEPT
                !.ok = TRUE, !.op = op, !.agent = a,
                !.message = IF op = "completeTraining"
                            THEN "Training complete! Start your work."
                            ELSE "Agent deactivated",
                !.status = status, !.before = trainProc[q].before,
                !.wrote = TRUE,
                !.dashboardUnlocked = (op = "completeTraining")]
    /\ trainProc' = [trainProc EXCEPT ![q] = IdleTrain]
    /\ UNCHANGED <<trainCalls, zoneRows, agentProc, agentCalls, notAgent>>

\* AgentRepository.verifyTemporaryPin: the user by phone and role (deletedAt
\* is null in every row), temporaryPin, pinExpiresAt (expired: it has
\* passed), bcrypt.compare (pinOk: the PIN is the temporary one)
VerifyTemporaryPin(a, pinOk, expired) ==
    IF agentStatus[a] = NoAgentProfile \/ ~agentStatus[a].temporaryPin
    THEN [valid |-> FALSE, expired |-> FALSE]
    ELSE IF expired THEN [valid |-> FALSE, expired |-> TRUE]
    ELSE [valid |-> pinOk, expired |-> FALSE]

\* firstLogin (the PIN has the temporary PIN format): verifyTemporaryPin,
\* then the pin_change token; before (history) is the status of the agent
FirstLogin(a, pinOk, expired) ==
    /\ trainCalls < MaxTrainCalls
    /\ trainCalls' = trainCalls + 1
    /\ LET result == VerifyTemporaryPin(a, pinOk, expired)
           e == IF result.expired THEN "PIN_EXPIRED"
                ELSE IF ~result.valid THEN "INVALID_PIN"
                ELSE NoVal
       IN /\ lastTrain' = [NoTrainAnswer EXCEPT
                !.ok = (e = NoVal), !.op = "firstLogin", !.agent = a,
                !.message = e, !.before = agentStatus[a].status]
          /\ agentStatus' = IF e = NoVal
                            THEN [agentStatus EXCEPT ![a].tokenSigned = TRUE]
                            ELSE agentStatus
    /\ UNCHANGED <<trainProc, zoneRows, agentProc, agentCalls, notAgent>>

\* setPin for the user a its token names: jwt.verify and the purpose
\* (tokenOk: a pin_change token firstLogin signed, not expired), validatePin
\* and validatePinMatch (valid: they accept the PINs), setPermanentPin,
\* findByUserId for requiresTraining, and the access and refresh tokens
SetPermanentPin(a, tokenOk, valid) ==
    /\ trainCalls < MaxTrainCalls
    /\ trainCalls' = trainCalls + 1
    /\ tokenOk => agentStatus[a].tokenSigned
    /\ LET e == IF ~tokenOk THEN "TOKEN_EXPIRED"
                ELSE IF ~valid THEN "INVALID_PIN"
                ELSE NoVal
       IN /\ lastTrain' = [NoTrainAnswer EXCEPT
                !.ok = (e = NoVal), !.op = "setPin", !.agent = a,
                !.message = e, !.before = agentStatus[a].status,
                !.wrote = (e = NoVal)]
          /\ agentStatus' = IF e = NoVal
                            THEN [agentStatus EXCEPT ![a].temporaryPin = FALSE]
                            ELSE agentStatus
    /\ UNCHANGED <<trainProc, zoneRows, agentProc, agentCalls, notAgent>>

\* reassignZone, updateMany: the statement starts and finds the agent's open
\* rows among the committed ones
ReassignScan(q, a, z, d) ==
    /\ agentProc[q].pc = "idle"
    \* a request takes the first free slot
    /\ q = "r1" \/ agentProc["r1"].pc # "idle"
    /\ AgentExists(a)
    /\ agentCalls < MaxAgentCalls
    /\ agentCalls' = agentCalls + 1
    /\ agentProc' = [agentProc EXCEPT ![q] =
          [IdleAgent EXCEPT !.pc = "update", !.agent = a, !.zone = z,
                            !.from = d, !.seen = OpenRows(a)]]
    /\ UNCHANGED <<zoneRows, trainStateVars, notAgent>>

\* reassignZone, updateMany: once no other transaction holds a lock on the
\* rows found, those still open are updated (effectiveTo: effectiveFrom)
ReassignClose(q) ==
    /\ agentProc[q].pc = "update"
    /\ \A r \in AgentProcs \ {q} : LockedBy(r) \cap agentProc[q].seen = {}
    /\ agentProc' = [agentProc EXCEPT ![q] =
          [@ EXCEPT !.pc = "create",
                    !.closing = agentProc[q].seen
                                    \cap OpenRows(agentProc[q].agent),
                    !.seen = {}]]
    /\ UNCHANGED <<zoneRows, agentCalls, trainStateVars, notAgent>>

\* the rows after the transaction's update and insert are committed
Reassigned(rows, closing, a, z, d) ==
    Append([i \in DOMAIN rows |->
               IF i \in closing THEN [rows[i] EXCEPT !.effectiveTo = d]
               ELSE rows[i]],
           [agent |-> a, zone |-> z, effectiveTo |-> OpenEnded])

\* reassignZone: agentZoneAssignment.create and the commit
ReassignCreate(q) ==
    /\ agentProc[q].pc = "create"
    /\ zoneRows' = Reassigned(zoneRows, agentProc[q].closing,
                              agentProc[q].agent, agentProc[q].zone,
                              agentProc[q].from)
    /\ agentProc' = [agentProc EXCEPT ![q] = IdleAgent]
    /\ UNCHANGED <<agentCalls, trainStateVars, notAgent>>

(***************************************************************************)
(* Hauler verification: HaulerAdminService (src/unnamed/part_005) and      *)
(* HaulerRepository.approveHauler / rejectHauler (src/unnamed/part_018).   *)
(***************************************************************************)
AdminProcs == {"r1", "r2"}
Admins == {"adm1", "adm2"}
VerifyActions == {"APPROVE", "REJECT"}
\* req.haulerId: the id of a hauler, or text that parseInt turns into NaN
AdminHaulerInputs == HaulerIds \cup {"abc"}

IdleAdmin == [pc |-> "idle", id |-> NoVal, action |-> NoVal,
              before |-> NoVal, raced |-> FALSE]

NoAdminAnswer == [ok |-> FALSE, message |-> NoVal, id |-> NoVal,
                  before |-> NoVal, raced |-> FALSE, wrote |-> FALSE,
                  notified |-> FALSE]

AdminFailure(id, msg) == [NoAdminAnswer EXCEPT !.id = id, !.message = msg]

\* data: { verificationStatus: 'ACTIVE' } / { verificationStatus: 'REJECTED' }
VerifiedStatus(act) == IF act = "APPROVE" THEN "ACTIVE" ELSE "REJECTED"

\* another verifyHauler request for the same hauler, which found the row
\* PENDING_VERIFICATION, is between its update and its answer
VerifyInFlight(q, h) ==
    \E r \in AdminProcs \ {q} : /\ adminProc[r].pc = "notify"
                                /\ adminProc[r].id = h
                                /\ adminProc[r].before = "PENDING_VERIFICATION"

\* verifyHauler up to the update of approveHauler / rejectHauler: the id and
\* rejection reason validation, then prisma.haulerProfile.update where
\* { id }, which throws when no such row exists
VerifyUpdate(q, id, act, by, reason) ==
    /\ adminProc[q].pc = "idle"
    \* a request takes the first free slot
    /\ q = "r1" \/ adminProc["r1"].pc # "idle"
    /\ adminCalls < MaxAdminCalls
    /\ adminCalls' = adminCalls + 1
    /\ LET msg == IF id \notin HaulerIds THEN "Invalid hauler ID"
                  ELSE IF act = "REJECT" /\ ~reason
                  THEN "Rejection reason is required"
                  ELSE IF profiles[id] = NoProfile
                  THEN "Verification failed. Please try again."
                  ELSE NoVal
       IN IF msg # NoVal
          THEN /\ lastAdmin' = AdminFailure(id, msg)
               /\ UNCHANGED <<profiles, verifiedBy, adminProc>>
          ELSE /\ lastAdmin' = NoAdminAnswer
               /\ profiles' = [profiles EXCEPT
                     ![id] = [@ EXCEPT !.verificationStatus = VerifiedStatus(act)]]
               /\ verifiedBy' = [verifiedBy EXCEPT ![id] = by]
               /\ adminProc' = [adminProc EXCEPT ![q] =
                     [IdleAdmin EXCEPT
                        !.pc = "notify", !.id = id, !.action = act,
                        !.before = profiles[id].verificationStatus,
                        !.raced = VerifyInFlight(q, id)]]
    /\ lastHauler' = NoHaulerAnswer
    /\ UNCHANGED notAdmin

\* sendApprovalNotification / sendRejectionNotification (a failed SMS is
\* logged, not thrown) and the answer
VerifyNotify(q, smsOk) ==
    /\ adminProc[q].pc = "notify"
    /\ lastAdmin' = [ok |-> TRUE,
                     message |-> IF adminProc[q].action = "APPROVE"
                                 THEN "Hauler approved successfully"
                                 ELSE "Hauler registration rejected",
                     id |-> adminProc[q].id,
                     before |-> adminProc[q].before,
                     raced |-> adminProc[q].raced,
                     wrote |-> TRUE,
                     notified |-> TRUE]
    /\ adminProc' = [adminProc EXCEPT ![q] = IdleAdmin]
    /\ lastHauler' = NoHaulerAnswer
    /\ UNCHANGED <<profiles, verifiedBy, adminCalls, notAdmin>>

(***************************************************************************)
(* Buyer registration: RegisterBuyer and VerifyBuyerOtp                    *)
(* (src/src/grpc/services/auth.ts), BuyerRepository (src/unnamed/part_017). *)
(***************************************************************************)
RegProcs == {"r1", "r2"}
BuyerPhones == {"b1", "b2"}
BuyerEmails == {"a@x.io", "A@x.io"}

\* email.toLowerCase()
ToLowerCase(e) == IF e = "A@x.io" THEN "a@x.io" ELSE e

\* BuyerRepository.emailExists: findUnique where { email: lower-cased }
EmailExists(e) == \E p \in BuyerPhones : buyerEmail[p] = ToLowerCase(e)

\* BuyerRepository.phoneExists: findUnique where { phone }
PhoneExists(p) == buyerEmail[p] # NoVal

\* call (history): the number of the call among the calls started
IdleReg == [pc |-> "idle", email |-> NoVal, phone |-> NoVal,
            rivalWon |-> FALSE, call |-> 0]

\* rateExceeded (history): generateOTP refused the call's OTP; created:
\* VerifyBuyerOtp created the account, from the bundle call bundleBy wrote,
\* on the OTP generated for call otpBy
NoRegAnswer == [ok |-> FALSE, error |-> NoVal, email |-> NoVal,
                phone |-> NoVal, rivalWon |-> FALSE, rateExceeded |-> FALSE,
                created |-> FALSE, bundleBy |-> 0, otpBy |-> 0]

\* JavaScript values: null, a string, an object
Null == [kind |-> "null"]

\* OtpService.generateOTP's return value: an object whose otp is null when
\* the rate limit is exceeded
GenerateOTPResult(admitted) ==
    [kind |-> "object",
     otp |-> IF admitted THEN [kind |-> "string"] ELSE Null,
     smsSent |-> FALSE]

\* !value
Not(value) == value.kind = "null"

RegFailure(q, e) ==
    [NoRegAnswer EXCEPT !.error = e, !.email = regProc[q].email,
                        !.phone = regProc[q].phone,
                        !.rivalWon = regProc[q].rivalWon]

\* RegisterBuyer to the answer of emailExists: the field validators (valid:
\* they accept the request) and the duplicate email check
RegisterEmailCheck(q, e, p, valid) ==
    /\ regProc[q].pc = "idle"
    \* a request takes the first free slot
    /\ q = "r1" \/ regProc["r1"].pc # "idle"
    /\ regCalls < MaxRegCalls
    /\ regCalls' = regCalls + 1
    /\ IF ~valid \/ EmailExists(e)
       THEN /\ lastReg' = [NoRegAnswer EXCEPT
                  !.error = IF ~valid THEN "INVALID_ARGUMENT" ELSE "EMAIL_EXISTS",
                  !.email = e, !.phone = p]
            /\ UNCHANGED regProc
       ELSE /\ lastReg' = NoRegAnswer
            /\ regProc' = [regProc EXCEPT ![q] =
                  [IdleReg EXCEPT !.pc = "phone", !.email = e, !.phone = p,
                                  !.call = regCalls + 1]]
    /\ UNCHANGED <<buyerEmail, buyerReg, buyerOtp, bundleBy, otpBy, notReg>>

\* RegisterBuyer: the duplicate phone check
RegisterPhoneCheck(q) ==
    /\ regProc[q].pc = "phone"
    /\ IF PhoneExists(regProc[q].phone)
       THEN /\ lastReg' = RegFailure(q, "PHONE_EXISTS")
            /\ regProc' = [regProc EXCEPT ![q] = IdleReg]
       ELSE /\ lastReg' = NoRegAnswer
            /\ regProc' = [regProc EXCEPT ![q] = [@ EXCEPT !.pc = "store"]]
    /\ UNCHANGED <<buyerEmail, buyerReg, buyerOtp, regCalls, bundleBy, otpBy,
                   notReg>>

\* the requests in flight for the same email and another phone
Rivals(q) ==
    {r \in RegProcs \ {q} :
        /\ regProc[r].pc # "idle"
        /\ ToLowerCase(regProc[r].email) = ToLowerCase(regProc[q].email)
        /\ regProc[r].phone # regProc[q].phone}

\* RegisterBuyer: valkey.setex(buyer_reg:<phone>, the bundle)
RegisterStore(q) ==
    /\ regProc[q].pc = "store"
    /\ buyerReg' = [buyerReg EXCEPT
          ![regProc[q].phone] = ToLowerCase(regProc[q].email)]
    /\ bundleBy' = [bundleBy EXCEPT ![regProc[q].phone] = regProc[q].call]
    /\ regProc' = [regProc EXCEPT ![q] = [@ EXCEPT !.pc = "otp"]]
    /\ lastReg' = NoRegAnswer
    /\ UNCHANGED <<buyerEmail, buyerOtp, otpBy, regCalls, notReg>>

\* RegisterBuyer: otpService.generateOTP (admitted: the OTP rate limit lets
\* the call through and otp:farmer:<phone> takes the new code), then the
\* answer
RegisterOtp(q, admitted) ==
    /\ regProc[q].pc = "otp"
    /\ buyerOtp' = [buyerOtp EXCEPT ![regProc[q].phone] = @ \/ admitted]
    /\ otpBy' = [otpBy EXCEPT
          ![regProc[q].phone] = IF admitted THEN regProc[q].call ELSE @]
    /\ lastReg' = IF Not(GenerateOTPResult(admitted))
                  THEN [RegFailure(q, "RESOURCE_EXHAUSTED") EXCEPT
                           !.rateExceeded = ~admitted]
                  ELSE [NoRegAnswer EXCEPT
                           !.ok = TRUE,
                           !.email = regProc[q].email,
                           !.phone = regProc[q].phone,
                           !.rivalWon = regProc[q].rivalWon,
                           !.rateExceeded = ~admitted]
    /\ regProc' = [r \in RegProcs |->
          IF r = q THEN IdleReg
          ELSE IF admitted /\ r \in Rivals(q)
          THEN [regProc[r] EXCEPT !.rivalWon = TRUE]
          ELSE regProc[r]]
    /\ UNCHANGED <<buyerEmail, buyerReg, bundleBy, regCalls, notReg>>

\* VerifyBuyerOtp: verifyOTP (otpOk: the code is the one otp:farmer:<phone>
\* holds), the pending registration, createBuyer (user.create fails on a
\* taken email or phone) and the deletion of buyer_reg:<phone>
VerifyBuyerOtp(p, otpOk) ==
    /\ regCalls < MaxRegCalls
    /\ regCalls' = regCalls + 1
    /\ IF ~(buyerOtp[p] /\ otpOk)
       THEN /\ lastReg' = NoRegAnswer
            /\ UNCHANGED <<buyerEmail, buyerReg, buyerOtp, bundleBy, otpBy>>
       ELSE /\ buyerOtp' = [buyerOtp EXCEPT ![p] = FALSE]
            /\ otpBy' = [otpBy EXCEPT ![p] = 0]
            /\ IF buyerReg[p] = NoVal \/ EmailExists(buyerReg[p])
                  \/ PhoneExists(p)
               THEN /\ lastReg' = NoRegAnswer
                    /\ UNCHANGED <<buyerEmail, buyerReg, bundleBy>>
               ELSE /\ buyerEmail' = [buyerEmail EXCEPT ![p] = buyerReg[p]]
                    /\ buyerReg' = [buyerReg EXCEPT ![p] = NoVal]
                    /\ bundleBy' = [bundleBy EXCEPT ![p] = 0]
                    /\ lastReg' = [NoRegAnswer EXCEPT
                          !.ok = TRUE, !.phone = p, !.created = TRUE,
                          !.email = buyerReg[p],
                          !.bundleBy = bundleBy[p], !.otpBy = otpBy[p]]
    /\ UNCHANGED <<regProc, notReg>>

(***************************************************************************)
(* Buyer accounts: BuyerLoginService (src/src/services/                    *)
(* buyer-login-service.ts), LoginWithPin (src/src/grpc/services/auth.ts)   *)
(* and the PIN attempts of src/unnamed/part_016.  Time is in minutes.      *)
(***************************************************************************)
MAX_LOGIN_ATTEMPTS == 5
LOCKOUT_DURATION_MINUTES == 30
\* recordFailedPinAttempt
MAX_ATTEMPTS == 5
LOCKOUT_MINUTES == 30

AcctProcs == {"r1", "r2"}
AcctUsers == {"u1"}
\* LoginWithPin: the id of a user, or of none
AcctUserIds == AcctUsers \cup {"u0"}
AcctEmail == [u1 |-> "buyer@x.io"]
AcctEmails == {"buyer@x.io", "nobody@x.io"}
Passwords == {"pw0", "pw1", "wrong"}
Pins == {"1397", "0000"}

\* bcrypt.hash and bcrypt.compare
BcryptHash(secret) ==
    CASE secret = "pw0" -> "$2b$pw0" [] secret = "pw1" -> "$2b$pw1"
      [] secret = "wrong" -> "$2b$wrong" [] secret = "1397" -> "$2b$1397"
      [] OTHER -> "$2b$0000"

BcryptCompare(secret, hash) == BcryptHash(secret) = hash

\* lockedUntil: null
NoLock == -1

\* a registered buyer who has set a PIN
NewAccount == [loginAttempts |-> 0, pinAttempts |-> 0, lockedUntil |-> NoLock,
               passwordHash |-> BcryptHash("pw0"),
               pinHash |-> BcryptHash("1397")]

\* findUnique where { email: email.toLowerCase() }
FindByEmail(e) ==
    IF \E u \in AcctUsers : AcctEmail[u] = e
    THEN CHOOSE u \in AcctUsers : AcctEmail[u] = e
    ELSE NoVal

\* user.lockedUntil && user.lockedUntil > new Date()
UserLockedNever(row, t) == FALSE

UserLocked(row, t) == row.lockedUntil # NoLock /\ row.lockedUntil > t

\* the row's locked-until instant is in the future
LockedUntilFuture(u) == acctUsers[u].lockedUntil > acctNow

\* a request: the row values it read (attempts, the outcome of the
\* comparison, the reset token row, the expiry it computed) and, as history,
\* lockedAtRead, the number of Session rows when it started (prior),
\* whether the reset token was unused when it marked it (fresh) and
\* whether the row it read held a locked-until instant that had passed
\* (expiredAtRead)
IdleAcct == [pc |-> "idle", op |-> NoVal, user |-> NoVal, attempts |-> 0,
             good |-> FALSE, lockedAtRead |-> FALSE, token |-> 0, prior |-> 0,
             expires |-> 0, fresh |-> FALSE, expiredAtRead |-> FALSE]

NoAcctAnswer == [ok |-> FALSE, error |-> NoVal, op |-> NoVal, user |-> NoVal,
                 lockedAtRead |-> FALSE, good |-> FALSE, token |-> 0,
                 prior |-> 0, fresh |-> FALSE, message |-> NoVal,
                 failed |-> FALSE, expiredAtRead |-> FALSE]

\* the row's locked-until instant is set and has passed
LockExpired(u) ==
    acctUsers[u].lockedUntil # NoLock /\ acctUsers[u].lockedUntil <= acctNow

\* time passes
AcctTick ==
    /\ acctNow + TickMinutes <= MaxAcctClock
    /\ acctNow' = acctNow + TickMinutes
    /\ lastAcct' = NoAcctAnswer
    /\ UNCHANGED <<acctUsers, acctSessions, resetTokens, acctProc, acctCalls,
                   compared, notAcct>>

AcctAnswer(q, ok, e) ==
    [ok |-> ok, error |-> e, op |-> acctProc[q].op, user |-> acctProc[q].user,
     lockedAtRead |-> acctProc[q].lockedAtRead, good |-> acctProc[q].good,
     token |-> acctProc[q].token, prior |-> acctProc[q].prior,
     fresh |-> acctProc[q].fresh, message |-> NoVal, failed |-> FALSE,
     expiredAtRead |-> acctProc[q].expiredAtRead]

\* BuyerLoginService.login to bcrypt.compare: the user by email, the lock
\* check, and the comparison of the password with the hash that was read
BuyerLoginRead(q, e, pw) ==
    /\ acctProc[q].pc = "idle"
    \* a request takes the first free slot
    /\ q = "r1" \/ acctProc["r1"].pc # "idle"
    /\ acctCalls < MaxAcctCalls
    /\ acctCalls' = acctCalls + 1
    /\ LET u == FindByEmail(e)
       IN IF u = NoVal
          THEN /\ lastAcct' = [NoAcctAnswer EXCEPT
                     !.op = "login", !.error = "INVALID_CREDENTIALS"]
               /\ UNCHANGED <<acctProc, compared>>
          ELSE LET good == BcryptCompare(pw, acctUsers[u].passwordHash)
                   me == [IdleAcct EXCEPT
                            !.op = "login", !.user = u, !.good = good,
                            !.attempts = acctUsers[u].loginAttempts,
                            !.lockedAtRead = LockedUntilFuture(u),
                            !.expiredAtRead = LockExpired(u)]
               IN IF UserLocked(acctUsers[u], acctNow)
                  THEN /\ lastAcct' = [NoAcctAnswer EXCEPT
                             !.op = "login", !.user = u, !.good = good,
                             !.error = "ACCOUNT_LOCKED",
                             !.lockedAtRead = LockedUntilFuture(u)]
                       /\ UNCHANGED <<acctProc, compared>>
                  ELSE /\ lastAcct' = NoAcctAnswer
                       /\ acctProc' = [acctProc EXCEPT ![q] =
                             [me EXCEPT !.pc = "update"]]
                       /\ compared' = [compared EXCEPT
                             ![u] = IF good THEN @ ELSE @ + 1]
    /\ UNCHANGED <<acctNow, acctUsers, acctSessions, resetTokens, notAcct>>

\* login: the update after a wrong password (with the lock at the fifth
\* failure counted from the row that was read) or after the right one
BuyerLoginUpdate(q) ==
    /\ acctProc[q].pc = "update"
    /\ acctProc[q].op = "login"
    /\ LET u == acctProc[q].user
           newAttempts == acctProc[q].attempts + 1
           shouldLock == newAttempts >= MAX_LOGIN_ATTEMPTS
       IN IF ~acctProc[q].good
          THEN /\ acctUsers' = [acctUsers EXCEPT ![u] =
                     [@ EXCEPT !.loginAttempts = newAttempts,
                               !.lockedUntil =
                                  IF shouldLock
                                  THEN acctNow + LOCKOUT_DURATION_MINUTES
                                  ELSE NoLock]]
               /\ lastAcct' = AcctAnswer(q, FALSE,
                                 IF shouldLock THEN "ACCOUNT_LOCKED"
                                 ELSE "INVALID_CREDENTIALS")
               /\ compared' = [compared EXCEPT
                     ![u] = IF shouldLock THEN 0 ELSE @]
               /\ acctProc' = [acctProc EXCEPT ![q] = IdleAcct]
          ELSE /\ acctUsers' = [acctUsers EXCEPT ![u] =
                     [@ EXCEPT !.loginAttempts = 0, !.lockedUntil = NoLock]]
               /\ lastAcct' = NoAcctAnswer
               /\ compared' = [compared EXCEPT ![u] = 0]
               /\ acctProc' = [acctProc EXCEPT ![q] = [@ EXCEPT !.pc = "session"]]
    /\ UNCHANGED <<acctNow, acctSessions, resetTokens, acctCalls, notAcct>>

\* prisma.session.create / sessionRepository.createSession
NewSession(u) == [user |-> u, deleted |-> FALSE]

\* login: the session and the answer
BuyerLoginSession(q) ==
    /\ acctProc[q].pc = "session"
    /\ acctProc[q].op = "login"
    /\ acctSessions' = Append(acctSessions, NewSession(acctProc[q].user))
    /\ lastAcct' = AcctAnswer(q, TRUE, NoVal)
    /\ acctProc' = [acctProc EXCEPT ![q] = IdleAcct]
    /\ UNCHANGED <<acctNow, acctUsers, resetTokens, acctCalls,
                   compared, notAcct>>

\* LoginWithPin to bcrypt.compare: getUserForPinLogin, the lock check
\* (isActive is true and pinHash is set in every row)
PinLoginRead(q, id, pin) ==
    /\ acctProc[q].pc = "idle"
    /\ q = "r1" \/ acctProc["r1"].pc # "idle"
    /\ acctCalls < MaxAcctCalls
    /\ acctCalls' = acctCalls + 1
    /\ IF id \notin AcctUsers
       THEN /\ lastAcct' = [NoAcctAnswer EXCEPT
                  !.op = "pin", !.error = "User not found"]
            /\ UNCHANGED acctProc
       ELSE LET good == BcryptCompare(pin, acctUsers[id].pinHash)
                me == [IdleAcct EXCEPT
                         !.op = "pin", !.user = id, !.good = good,
                         !.attempts = acctUsers[id].pinAttempts,
                         !.lockedAtRead = LockedUntilFuture(id)]
            IN IF UserLocked(acctUsers[id], acctNow)
               THEN /\ lastAcct' = [NoAcctAnswer EXCEPT
                          !.op = "pin", !.user = id, !.good = good,
                          !.error = "ACCOUNT_LOCKED",
                          !.lockedAtRead = LockedUntilFuture(id)]
                    /\ UNCHANGED acctProc
               ELSE /\ lastAcct' = NoAcctAnswer
                    /\ acctProc' = [acctProc EXCEPT ![q] =
                          [me EXCEPT !.pc = "update"]]
    /\ UNCHANGED <<acctNow, acctUsers, acctSessions, resetTokens,
                   compared, notAcct>>

\* LoginWithPin: recordFailedPinAttempt(user.id, user.pinAttempts) or
\* clearPinAttempts
PinLoginUpdate(q) ==
    /\ acctProc[q].pc = "update"
    /\ acctProc[q].op = "pin"
    /\ LET u == acctProc[q].user
           newAttempts == acctProc[q].attempts + 1
           shouldLock == newAttempts >= MAX_ATTEMPTS
       IN IF ~acctProc[q].good
          THEN /\ acctUsers' = [acctUsers EXCEPT ![u] =
                     [@ EXCEPT !.pinAttempts = newAttempts,
                               !.lockedUntil =
                                  IF shouldLock
                                  THEN acctNow + LOCKOUT_MINUTES
                                  ELSE NoLock]]
               /\ lastAcct' = AcctAnswer(q, FALSE, "INVALID_PIN")
               /\ acctProc' = [acctProc EXCEPT ![q] = IdleAcct]
          ELSE /\ acctUsers' = [acctUsers EXCEPT ![u] =
                     [@ EXCEPT !.pinAttempts = 0, !.lockedUntil = NoLock]]
               /\ lastAcct' = NoAcctAnswer
               /\ acctProc' = [acctProc EXCEPT ![q] =
                     [@ EXCEPT !.pc = "invalidate"]]
    /\ UNCHANGED <<acctNow, acctSessions, resetTokens, acctCalls,
                   compared, notAcct>>

\* updateMany where { userId }: deletedAt = now
SessionsKept(ss, u) == ss

SoftDeleteSessions(ss, u) ==
    [i \in DOMAIN ss |->
        IF ss[i].user = u THEN [ss[i] EXCEPT !.deleted = TRUE] ELSE ss[i]]

\* LoginWithPin: sessionRepository.invalidateUserSessions
PinLoginInvalidate(q) ==
    /\ acctProc[q].pc = "invalidate"
    /\ acctProc[q].op = "pin"
    /\ acctSessions' = SoftDeleteSessions(acctSessions, acctProc[q].user)
    /\ lastAcct' = NoAcctAnswer
    /\ acctProc' = [acctProc EXCEPT ![q] = [@ EXCEPT !.pc = "session"]]
    /\ UNCHANGED <<acctNow, acctUsers, resetTokens, acctCalls,
                   compared, notAcct>>

\* LoginWithPin: sessionRepository.createSession and the answer
PinLoginSession(q) ==
    /\ acctProc[q].pc = "session"
    /\ acctProc[q].op = "pin"
    /\ acctSessions' = Append(acctSessions, NewSession(acctProc[q].user))
    /\ lastAcct' = AcctAnswer(q, TRUE, NoVal)
    /\ acctProc' = [acctProc EXCEPT ![q] = IdleAcct]
    /\ UNCHANGED <<acctNow, acctUsers, resetTokens, acctCalls,
                   compared, notAcct>>

RESET_TOKEN_EXPIRY_HOURS == 1
\* resetPassword: LIMIT 10
ResetScanLimit == 10

\* uuidv4(): the n-th reset token issued
ResetTokenInputs == 1..MaxResetCalls

\* bcrypt.hash(resetToken, 12) and bcrypt.compare(token, rt.token_hash)
TokenHash(t) == <<"$2b$12$", t>>

TokenCompare(t, hash) == TokenHash(t) = hash

\* the ForgotPassword response: forgotPassword's return value after the
\* try block, and the one of its catch block; the handler passes the message
\* on with success: true; failed (history) marks a database failure
ForgotSent(q) ==
    [AcctAnswer(q, TRUE, NoVal) EXCEPT
        !.op = "forgot",
        !.message = "If this email exists, we've sent a reset link."]

ForgotCaughtLeaks(q) ==
    [AcctAnswer(q, FALSE, "INTERNAL") EXCEPT
        !.op = "forgot", !.message = "Internal server error", !.failed = TRUE]

ForgotCaught(q) ==
    [AcctAnswer(q, TRUE, NoVal) EXCEPT
        !.op = "forgot",
        !.message = "If this email exists, we've sent a reset link.",
        !.failed = TRUE]

\* forgotPassword to its first write: the user by email (dbOk: the query
\* succeeds)
ForgotRead(q, e, dbOk) ==
    /\ acctProc[q].pc = "idle"
    /\ q = "r1" \/ acctProc["r1"].pc # "idle"
    /\ acctCalls < MaxResetCalls
    /\ acctCalls' = acctCalls + 1
    /\ LET u == FindByEmail(e)
       IN IF ~dbOk
          THEN /\ lastAcct' = ForgotCaught(q)
               /\ UNCHANGED acctProc
          ELSE IF u = NoVal
          THEN /\ lastAcct' = ForgotSent(q)
               /\ UNCHANGED acctProc
          ELSE /\ lastAcct' = NoAcctAnswer
               /\ acctProc' = [acctProc EXCEPT ![q] =
                     [IdleAcct EXCEPT
                        !.pc = "finvalidate", !.op = "forgot", !.user = u,
                        !.expires = acctNow + RESET_TOKEN_EXPIRY_HOURS * 60]]
    /\ UNCHANGED <<acctNow, acctUsers, acctSessions, resetTokens,
                   compared, notAcct>>

\* UPDATE password_reset_tokens SET used_at = NOW()
\* WHERE user_id = ... AND used_at IS NULL
SpendTokensOf(rows, u) ==
    [i \in DOMAIN rows |->
        IF rows[i].user = u /\ ~rows[i].used
        THEN [rows[i] EXCEPT !.used = TRUE] ELSE rows[i]]

ForgotInvalidate(q, dbOk) ==
    /\ acctProc[q].pc = "finvalidate"
    /\ IF dbOk
       THEN /\ resetTokens' = SpendTokensOf(resetTokens, acctProc[q].user)
            /\ lastAcct' = NoAcctAnswer
            /\ acctProc' = [acctProc EXCEPT ![q] = [@ EXCEPT !.pc = "finsert"]]
       ELSE /\ lastAcct' = ForgotCaught(q)
            /\ acctProc' = [acctProc EXCEPT ![q] = IdleAcct]
            /\ UNCHANGED resetTokens
    /\ UNCHANGED <<acctNow, acctUsers, acctSessions, acctCalls,
                   compared, notAcct>>

\* INSERT INTO password_reset_tokens, and the answer
ForgotInsert(q, dbOk) ==
    /\ acctProc[q].pc = "finsert"
    /\ IF dbOk
       THEN /\ resetTokens' = Append(resetTokens,
                  [user |-> acctProc[q].user,
                   hash |-> TokenHash(Len(resetTokens) + 1),
                   used |-> FALSE, expiresAt |-> acctProc[q].expires])
            /\ lastAcct' = [ForgotSent(q) EXCEPT
                               !.token = Len(resetTokens) + 1]
       ELSE /\ lastAcct' = ForgotCaught(q)
            /\ UNCHANGED resetTokens
    /\ acctProc' = [acctProc EXCEPT ![q] = IdleAcct]
    /\ UNCHANGED <<acctNow, acctUsers, acctSessions, acctCalls,
                   compared, notAcct>>

\* SELECT ... WHERE used_at IS NULL AND expires_at > NOW()
\* ORDER BY created_at DESC LIMIT 10
ResetCandidates ==
    LET live == {i \in DOMAIN resetTokens :
                    ~resetTokens[i].used /\ resetTokens[i].expiresAt > acctNow}
    IN {i \in live : Cardinality({j \in live : j > i}) < ResetScanLimit}

\* the first candidate whose hash bcrypt.compare accepts, 0 when none
MatchingToken(t) ==
    LET hits == {i \in ResetCandidates : TokenCompare(t, resetTokens[i].hash)}
    IN IF hits = {} THEN 0 ELSE CHOOSE i \in hits : \A j \in hits : j <= i

\* resetPassword to the user update: validatePassword (valid), the SELECT
\* and the comparison of the token with the rows selected
ResetSelect(q, t, pw, valid) ==
    /\ acctProc[q].pc = "idle"
    /\ q = "r1" \/ acctProc["r1"].pc # "idle"
    /\ acctCalls < MaxResetCalls
    /\ acctCalls' = acctCalls + 1
    /\ LET m == MatchingToken(t)
       IN IF ~valid \/ m = 0
          THEN /\ lastAcct' = [NoAcctAnswer EXCEPT
                     !.op = "reset", !.token = t,
                     !.error = IF ~valid THEN "INVALID_PASSWORD"
                               ELSE "TOKEN_EXPIRED"]
               /\ UNCHANGED acctProc
          ELSE /\ lastAcct' = NoAcctAnswer
               /\ acctProc' = [acctProc EXCEPT ![q] =
                     [IdleAcct EXCEPT
                        !.pc = "rupdate", !.op = "reset", !.token = m,
                        !.user = resetTokens[m].user,
                        !.prior = Len(acctSessions)]]
    /\ UNCHANGED <<acctNow, acctUsers, acctSessions, resetTokens,
                   compared, notAcct>>

\* resetPassword: user.update { passwordHash, loginAttempts: 0,
\* lockedUntil: null }
ResetUpdateUser(q) ==
    /\ acctProc[q].pc = "rupdate"
    /\ acctUsers' = [acctUsers EXCEPT ![acctProc[q].user] =
          [@ EXCEPT !.passwordHash = BcryptHash("pw1"),
                    !.loginAttempts = 0, !.lockedUntil = NoLock]]
    /\ lastAcct' = NoAcctAnswer
    /\ acctProc' = [acctProc EXCEPT ![q] = [@ EXCEPT !.pc = "rmark"]]
    /\ UNCHANGED <<acctNow, acctSessions, resetTokens, acctCalls,
                   compared, notAcct>>

\* resetPassword: UPDATE password_reset_tokens SET used_at = NOW()
\* WHERE id = matchingToken.id
ResetMarkUsed(q) ==
    /\ acctProc[q].pc = "rmark"
    /\ resetTokens' = [resetTokens EXCEPT ![acctProc[q].token] =
                          [@ EXCEPT !.used = TRUE]]
    /\ lastAcct' = NoAcctAnswer
    /\ acctProc' = [acctProc EXCEPT ![q] =
          [@ EXCEPT !.pc = "rinvalidate",
                    !.fresh = ~resetTokens[acctProc[q].token].used]]
    /\ UNCHANGED <<acctNow, acctUsers, acctSessions, acctCalls,
                   compared, notAcct>>

\* resetPassword: session.updateMany where { userId }
ResetInvalidate(q) ==
    /\ acctProc[q].pc = "rinvalidate"
    /\ acctSessions' = SoftDeleteSessions(acctSessions, acctProc[q].user)
    /\ lastAcct' = NoAcctAnswer
    /\ acctProc' = [acctProc EXCEPT ![q] = [@ EXCEPT !.pc = "rsession"]]
    /\ UNCHANGED <<acctNow, acctUsers, resetTokens, acctCalls,
                   compared, notAcct>>

\* resetPassword: the session of the automatic login, and the answer
ResetSession(q) ==
    /\ acctProc[q].pc = "rsession"
    /\ acctSessions' = Append(acctSessions, NewSession(acctProc[q].user))
    /\ lastAcct' = AcctAnswer(q, TRUE, NoVal)
    /\ acctProc' = [acctProc EXCEPT ![q] = IdleAcct]
    /\ UNCHANGED <<acctNow, acctUsers, resetTokens, acctCalls,
                   compared, notAcct>>

(***************************************************************************)
(* Team invitations: TeamManagementService.inviteTeamMember /              *)
(* acceptInvitation / resendInvitation and TeamInvitationRepository        *)
(* (src/src/repositories/team-invitation-repository.ts), in one            *)
(* organization.  Time is in hours.                                        *)
(***************************************************************************)
INVITE_EXPIRY_HOURS == 24

InviteProcs == {"r1", "r2"}
\* the emails of the members' User rows, and the emails invited
MemberEmail == [u1 |-> "u1@x.io", u2 |-> "u2@x.io", u3 |-> "u3@x.io"]
InviteEmails == {"new@x.io", "u2@x.io"}
\* crypto.randomBytes(32): the n-th raw token generated
InviteTokenInputs == 1..MaxInviteCalls
\* params.invitationId
InviteIds == 1..MaxInviteCalls

\* bcrypt.hash(rawToken, 10) and bcrypt.compare(rawToken, tokenHash)
InviteTokenHash(t) == <<"$2b$10$", t>>

InviteTokenCompare(t, hash) == InviteTokenHash(t) = hash

\* history in a request: the invitation was accepted or expired when the
\* request read it (stale), an acceptInvitation for it had succeeded when the
\* request committed (repeat)
IdleInvite == [pc |-> "idle", op |-> NoVal, caller |-> NoVal, email |-> NoVal,
               id |-> 0, stale |-> FALSE]

NoInviteAnswer == [ok |-> FALSE, error |-> NoVal, op |-> NoVal, email |-> NoVal,
                   id |-> 0, stale |-> FALSE, repeat |-> FALSE]

InviteError(op, e) == [NoInviteAnswer EXCEPT !.op = op, !.error = e]

InviteTick ==
    /\ inviteNow + InviteTickHours <= MaxInviteClock
    /\ inviteNow' = inviteNow + InviteTickHours
    /\ lastInvite' = NoInviteAnswer
    /\ UNCHANGED <<invites, inviteUsers, inviteSerial, inviteProc, inviteCalls,
                   notInvite>>

\* findByEmail: findFirst where { buyerOrgId, email, accepted: false }
PendingInvites(e) ==
    {i \in DOMAIN invites : invites[i].email = e /\ ~invites[i].accepted}

\* isDuplicateEmail: a membership whose user has the email, or a pending
\* invitation
IsDuplicateEmail(e) ==
    \/ \E u \in TeamUsers : members[u] # NoMember /\ MemberEmail[u] = e
    \/ e \in inviteUsers
    \/ PendingInvites(e) # {}

\* inviteTeamMember to the inviter lookup: isDuplicateEmail and the role
\* validation (valid: the role is one of BuyerTeamRole)
InviteDupCheck(q, caller, e, valid) ==
    /\ inviteProc[q].pc = "idle"
    \* a request takes the first free slot
    /\ q = "r1" \/ inviteProc["r1"].pc # "idle"
    /\ inviteCalls < MaxInviteCalls
    /\ inviteCalls' = inviteCalls + 1
    /\ IF IsDuplicateEmail(e) \/ ~valid
       THEN /\ lastInvite' = [InviteError("invite",
                                 IF IsDuplicateEmail(e) THEN "DUPLICATE_EMAIL"
                                 ELSE "INVALID_ROLE") EXCEPT !.email = e]
            /\ UNCHANGED inviteProc
       ELSE /\ lastInvite' = NoInviteAnswer
            /\ inviteProc' = [inviteProc EXCEPT ![q] =
                  [IdleInvite EXCEPT !.pc = "inviter", !.op = "invite",
                                     !.caller = caller, !.email = e]]
    /\ UNCHANGED <<inviteNow, invites, inviteUsers, inviteSerial, notInvite>>

\* inviteTeamMember: the inviter's membership
InviteAuth(q) ==
    /\ inviteProc[q].pc = "inviter"
    /\ IF Unauthorized(members, inviteProc[q].caller)
       THEN /\ lastInvite' = [InviteError("invite", "UNAUTHORIZED") EXCEPT
                                 !.email = inviteProc[q].email]
            /\ inviteProc' = [inviteProc EXCEPT ![q] = IdleInvite]
       ELSE /\ lastInvite' = NoInviteAnswer
            /\ inviteProc' = [inviteProc EXCEPT ![q] = [@ EXCEPT !.pc = "create"]]
    /\ UNCHANGED <<inviteNow, invites, inviteUsers, inviteSerial, inviteCalls,
                   notInvite>>

\* invitationRepo.create: a fresh token, its hash, a 24-hour expiry; accepts
\* (history) counts the acceptInvitation calls that succeeded for the row
InviteCreate(q) ==
    /\ inviteProc[q].pc = "create"
    /\ inviteSerial' = inviteSerial + 1
    /\ invites' = Append(invites,
          [email |-> inviteProc[q].email,
           hash |-> InviteTokenHash(inviteSerial + 1),
           accepted |-> FALSE,
           expiresAt |-> inviteNow + INVITE_EXPIRY_HOURS,
           accepts |-> 0])
    /\ lastInvite' = [NoInviteAnswer EXCEPT
          !.ok = TRUE, !.op = "invite", !.email = inviteProc[q].email,
          !.id = Len(invites) + 1]
    /\ inviteProc' = [inviteProc EXCEPT ![q] = IdleInvite]
    /\ UNCHANGED <<inviteNow, inviteUsers, inviteCalls, notInvite>>

\* validateToken: findMany where { accepted: false, expiresAt > now }
InviteCandidates ==
    {i \in DOMAIN invites :
        ~invites[i].accepted /\ invites[i].expiresAt > inviteNow}

\* validateToken: the first candidate whose hash matches, 0 when none
ValidateToken(t) ==
    LET hits == {i \in InviteCandidates :
                    InviteTokenCompare(t, invites[i].hash)}
    IN IF hits = {} THEN 0 ELSE CHOOSE i \in hits : \A j \in hits : i <= j

\* isExpired: new Date() > invitation.expiresAt
IsExpired(row) == inviteNow > row.expiresAt

\* the row holding the hash of token t, whatever its state, 0 when none
RowOfToken(t) ==
    LET hits == {i \in DOMAIN invites : InviteTokenCompare(t, invites[i].hash)}
    IN IF hits = {} THEN 0 ELSE CHOOSE i \in hits : TRUE

\* acceptInvitation to the transaction: validateToken, isExpired and the
\* password validation (valid)
AcceptValidate(q, t, valid) ==
    /\ inviteProc[q].pc = "idle"
    /\ q = "r1" \/ inviteProc["r1"].pc # "idle"
    /\ inviteCalls < MaxInviteCalls
    /\ inviteCalls' = inviteCalls + 1
    /\ LET i == ValidateToken(t)
           r == RowOfToken(t)
           stale == r # 0 /\ (invites[r].accepted
                               \/ invites[r].expiresAt <= inviteNow)
           e == IF i = 0 THEN "INVALID_TOKEN"
                ELSE IF IsExpired(invites[i]) THEN "INVITATION_EXPIRED"
                ELSE IF ~valid THEN "WEAK_PASSWORD"
                ELSE NoVal
       IN IF e # NoVal
          THEN /\ lastInvite' = [InviteError("accept", e) EXCEPT
                                    !.id = r, !.stale = stale]
               /\ UNCHANGED inviteProc
          ELSE /\ lastInvite' = NoInviteAnswer
               /\ inviteProc' = [inviteProc EXCEPT ![q] =
                     [IdleInvite EXCEPT
                        !.pc = "tx", !.op = "accept", !.id = i,
                        !.email = invites[i].email, !.stale = stale]]
    /\ UNCHANGED <<inviteNow, invites, inviteUsers, inviteSerial, notInvite>>

\* the unique index of User.email (the database schema): a User row with
\* this email exists
UserEmailFree(e) == FALSE

UserEmailTaken(e) ==
    e \in inviteUsers \/ \E u \in TeamUsers : MemberEmail[u] = e

\* acceptInvitation: the transaction (user.create, which fails on a taken
\* email; teamMembership.create; teamInvitation.update accepted) and the
\* answer
AcceptCommit(q) ==
    /\ inviteProc[q].pc = "tx"
    /\ LET i == inviteProc[q].id
           e == inviteProc[q].email
       IN IF UserEmailTaken(e)
          THEN /\ lastInvite' = [InviteError("accept", "P2002") EXCEPT
                     !.id = i, !.email = e, !.stale = inviteProc[q].stale,
                     !.repeat = invites[i].accepts > 0]
               /\ UNCHANGED <<invites, inviteUsers>>
          ELSE /\ inviteUsers' = inviteUsers \cup {e}
               /\ invites' = [invites EXCEPT ![i] =
                     [@ EXCEPT !.accepted = TRUE, !.accepts = @ + 1]]
               /\ lastInvite' = [NoInviteAnswer EXCEPT
                     !.ok = TRUE, !.op = "accept", !.id = i, !.email = e,
                     !.stale = inviteProc[q].stale,
                     !.repeat = invites[i].accepts > 0]
    /\ inviteProc' = [inviteProc EXCEPT ![q] = IdleInvite]
    /\ UNCHANGED <<inviteNow, inviteSerial, inviteCalls, notInvite>>

\* resendInvitation: the requester's membership
ResendAuth(q, caller, id) ==
    /\ inviteProc[q].pc = "idle"
    /\ q = "r1" \/ inviteProc["r1"].pc # "idle"
    /\ inviteCalls < MaxInviteCalls
    /\ inviteCalls' = inviteCalls + 1
    /\ IF Unauthorized(members, caller)
       THEN /\ lastInvite' = [InviteError("resend", "UNAUTHORIZED") EXCEPT
                                 !.id = id]
            /\ UNCHANGED inviteProc
       ELSE /\ lastInvite' = NoInviteAnswer
            /\ inviteProc' = [inviteProc EXCEPT ![q] =
                  [IdleInvite EXCEPT !.pc = "find", !.op = "resend",
                                     !.caller = caller, !.id = id]]
    /\ UNCHANGED <<inviteNow, invites, inviteUsers, inviteSerial, notInvite>>

\* resendInvitation: findById, INVITATION_NOT_FOUND, ALREADY_ACCEPTED
ResendFind(q) ==
    /\ inviteProc[q].pc = "find"
    /\ LET i == inviteProc[q].id
           e == IF i \notin DOMAIN invites THEN "INVITATION_NOT_FOUND"
                ELSE IF invites[i].accepted THEN "ALREADY_ACCEPTED"
                ELSE NoVal
       IN IF e # NoVal
          THEN /\ lastInvite' = [InviteError("resend", e) EXCEPT !.id = i]
               /\ inviteProc' = [inviteProc EXCEPT ![q] = IdleInvite]
          ELSE /\ lastInvite' = NoInviteAnswer
               /\ inviteProc' = [inviteProc EXCEPT ![q] = [@ EXCEPT !.pc = "write"]]
    /\ UNCHANGED <<inviteNow, invites, inviteUsers, inviteSerial, inviteCalls,
                   notInvite>>

\* invitationRepo.resend: a new token and expiry, accepted: false
ResendWrite(q) ==
    /\ inviteProc[q].pc = "write"
    /\ inviteSerial' = inviteSerial + 1
    /\ invites' = [invites EXCEPT ![inviteProc[q].id] =
          [@ EXCEPT !.hash = InviteTokenHash(inviteSerial + 1),
                    !.expiresAt = inviteNow + INVITE_EXPIRY_HOURS,
                    !.accepted = FALSE]]
    /\ lastInvite' = [NoInviteAnswer EXCEPT
          !.ok = TRUE, !.op = "resend", !.id = inviteProc[q].id]
    /\ inviteProc' = [inviteProc EXCEPT ![q] = IdleInvite]
    /\ UNCHANGED <<inviteNow, inviteUsers, inviteCalls, notInvite>>

(***************************************************************************)
(* Permanent PINs: validatePin (src/unnamed/part_005:507-610),             *)
(* AgentProvisioningService.setPin and the SetPin handler of               *)
(* src/src/grpc/services/auth.ts.  A PIN is a sequence of characters:      *)
(* 0..9 are the digits, NonDigit is any other character.                   *)
(***************************************************************************)
NonDigit == 10
PIN_LENGTH == 4

PinUsers == {"agent", "farmer"}

\* the 4-digit runs of consecutive digits, up and down, and the repeated
\* digit
Ascending(k) == <<k, k + 1, k + 2, k + 3>>

Descending(k) == <<k + 3, k + 2, k + 1, k>>

Repeated(d) == <<d, d, d, d>>

\* the PINs of the requests: every run and repetition, PINs that are
\* neither, and strings that are not 4 digits
PinInputs ==
    {Ascending(k) : k \in 0..6} \cup {Descending(k) : k \in 0..6}
      \cup {Repeated(d) : d \in 0..9}
      \cup {<<1, 3, 9, 7>>, <<0, 1, 2, 4>>, <<9, 8, 7, 5>>}
      \cup {<<1, 2, 3>>, <<1, 2, 3, 4, 5>>, <<1, 2, NonDigit, 4>>}

SEQUENTIAL_PATTERNS ==
    {<<0, 1, 2, 3>>, <<1, 2, 3, 4>>, <<2, 3, 4, 5>>, <<3, 4, 5, 6>>,
     <<4, 5, 6, 7>>, <<5, 6, 7, 8>>, <<6, 7, 8, 9>>,
     <<9, 8, 7, 6>>, <<8, 7, 6, 5>>, <<7, 6, 5, 4>>, <<6, 5, 4, 3>>,
     <<5, 4, 3, 2>>, <<4, 3, 2, 1>>, <<3, 2, 1, 0>>}

\* /^\d{4}$/.test(pin)
FourDigits(pin) ==
    Len(pin) = PIN_LENGTH /\ \A i \in 1..Len(pin) : pin[i] \in 0..9

\* SEQUENTIAL_PATTERNS.includes(pin)
IsSequential(pin) == pin \in SEQUENTIAL_PATTERNS

\* /^(\d)\1{3}$/.test(pin)
IsRepeated(pin) ==
    /\ Len(pin) = PIN_LENGTH
    /\ pin[1] \in 0..9
    /\ \A i \in 2..Len(pin) : pin[i] = pin[1]

\* validatePin: the errorCode, NoVal when valid
ValidatePin(pin) ==
    IF ~FourDigits(pin) THEN "INVALID_FORMAT"
    ELSE IF IsSequential(pin) THEN "SEQUENTIAL"
    ELSE IF IsRepeated(pin) THEN "REPEATED"
    ELSE NoVal

\* bcrypt.hash(pin, 10); no pinHash
PinHash(pin) == <<"$2b$10$", pin>>

NoPinHash == <<>>

\* pin (history) of an answer: the PIN the call stored
NoPinAnswer == [ok |-> FALSE, error |-> NoVal, user |-> NoVal, pin |-> <<>>]

\* AgentProvisioningService.setPin: the temporary token (tokenOk: it
\* verifies and its purpose is pin_change), validatePin, validatePinMatch,
\* setPermanentPin
AgentSetPin(tokenOk, pin, confirm) ==
    /\ pinCalls < MaxPinCalls
    /\ pinCalls' = pinCalls + 1
    /\ LET e == IF ~tokenOk THEN "TOKEN_EXPIRED"
                ELSE IF ValidatePin(pin) # NoVal THEN ValidatePin(pin)
                ELSE IF pin # confirm THEN "MISMATCH"
                ELSE NoVal
       IN IF e # NoVal
          THEN /\ lastPin' = [NoPinAnswer EXCEPT !.error = e, !.user = "agent"]
               /\ UNCHANGED pinHash
          ELSE /\ pinHash' = [pinHash EXCEPT !["agent"] = PinHash(pin)]
               /\ lastPin' = [NoPinAnswer EXCEPT
                     !.ok = TRUE, !.user = "agent", !.pin = pin]
    /\ UNCHANGED notPin

\* the SetPin handler (farmer): pin.length !== 4 || !/^\d{4}$/.test(pin),
\* bcrypt.hash, setUserPin
FarmerSetPin(pin) ==
    /\ pinCalls < MaxPinCalls
    /\ pinCalls' = pinCalls + 1
    /\ IF Len(pin) # PIN_LENGTH \/ ~FourDigits(pin)
       THEN /\ lastPin' = [NoPinAnswer EXCEPT
                  !.error = "INVALID_ARGUMENT", !.user = "farmer"]
            /\ UNCHANGED pinHash
       ELSE /\ pinHash' = [pinHash EXCEPT !["farmer"] = PinHash(pin)]
            /\ lastPin' = [NoPinAnswer EXCEPT
                  !.ok = TRUE, !.user = "farmer", !.pin = pin]
    /\ UNCHANGED notPin

Init ==
    /\ now = 0
    /\ rateCount = [p \in OtpPhones |-> 0]
    /\ rateExpiry = [p \in OtpPhones |-> NoTTL]
    /\ otpHash = [p \in OtpPhones |-> NoVal]
    /\ otpExpiry = [p \in OtpPhones |-> NoTTL]
    /\ otpProc = [q \in OtpProcs |-> IdleOtp]
    /\ otpCalls = 0
    /\ rateEpoch = [p \in OtpPhones |-> 0]
    /\ genLog = [p \in OtpPhones |-> <<>>]
    /\ otpSerial = [p \in OtpPhones |-> 0]
    /\ otpTag = [p \in OtpPhones |-> 0]
    /\ wins = [p \in OtpPhones |-> <<>>]
    /\ attempts = [p \in LoginPhones |-> 0]
    /\ attemptsExpiry = [p \in LoginPhones |-> NoTTL]
    /\ lockUntil = [p \in LoginPhones |-> 0]
    /\ lockExpiry = [p \in LoginPhones |-> NoTTL]
    /\ sessions = <<>>
    /\ tokenSerial = 0
    /\ loginProc = [q \in LoginProcs |-> IdleLogin]
    /\ lastLogin = NoAnswer
    /\ members = [u \in TeamUsers |->
          [role |-> IF u = "u1" THEN "ADMIN" ELSE "PROCUREMENT_MANAGER",
           status |-> "ACTIVE"]]
    /\ teamProc = [q \in TeamProcs |-> IdleTeam]
    /\ teamCalls = 0
    /\ lastTeam = NoTeamAnswer
    /\ profiles = [h \in HaulerIds |-> NoProfile]
    /\ haulerProc = [q \in HaulerProcs |-> IdleHauler]
    /\ haulerCalls = 0
    /\ submitted = [h \in HaulerIds |-> FALSE]
    /\ payProc = [h \in HaulerIds |-> 0]
    /\ lastHauler = NoHaulerAnswer
    /\ zoneRows = <<>>
    /\ agentProc = [q \in AgentProcs |-> IdleAgent]
    /\ agentCalls = 0
    /\ verifiedBy = [h \in HaulerIds |-> NoVal]
    /\ adminProc = [q \in AdminProcs |-> IdleAdmin]
    /\ adminCalls = 0
    /\ lastAdmin = NoAdminAnswer
    /\ buyerEmail = [p \in BuyerPhones |-> NoVal]
    /\ buyerReg = [p \in BuyerPhones |-> NoVal]
    /\ buyerOtp = [p \in BuyerPhones |-> FALSE]
    /\ regProc = [q \in RegProcs |-> IdleReg]
    /\ regCalls = 0
    /\ lastReg = NoRegAnswer
    /\ bundleBy = [p \in BuyerPhones |-> 0]
    /\ otpBy = [p \in BuyerPhones |-> 0]
    /\ acctNow = 0
    /\ acctUsers = [u \in AcctUsers |-> NewAccount]
    /\ acctSessions = <<>>
    /\ resetTokens = <<>>
    /\ acctProc = [q \in AcctProcs |-> IdleAcct]
    /\ acctCalls = 0
    /\ compared = [u \in AcctUsers |-> 0]
    /\ lastAcct = NoAcctAnswer
    /\ roleChanges = <<>>
    /\ pinHash = [u \in PinUsers |-> NoPinHash]
    /\ pinCalls = 0
    /\ lastPin = NoPinAnswer
    /\ agentStatus = [a \in AgentIds |-> NoAgentProfile]
    /\ trainProc = [q \in TrainProcs |-> IdleTrain]
    /\ trainCalls = 0
    /\ lastTrain = NoTrainAnswer
    /\ inviteNow = 0
    /\ invites = <<>>
    /\ inviteUsers = {}
    /\ inviteSerial = 0
    /\ inviteProc = [q \in InviteProcs |-> IdleInvite]
    /\ inviteCalls = 0
    /\ lastInvite = NoInviteAnswer
    /\ loginCalls = 0
    /\ lockDue = [p \in LoginPhones |-> 0]
    /\ tokenCheck = [asked |-> FALSE, valid |-> FALSE, active |-> FALSE]

NextOtp ==
    \/ \E q \in OtpProcs, p \in OtpPhones : GenIncr(q, p)
    \/ \E q \in OtpProcs : GenCheck(q)
    \/ \E q \in OtpProcs, c \in OtpCodes : GenStore(q, c)
    \/ \E q \in OtpProcs, p \in OtpPhones, c \in OtpCodes : VerifyGet(q, p, c)
    \/ \E q \in OtpProcs : VerifyCmp(q)
    \/ OtpTickAct

SpecOtp == Init /\ [][NextOtp]_vars

\* the login requests of the set Q of request slots, and the clock
LoginSteps(Q) ==
    \/ \E q \in Q, p \in LoginPhones, c \in OtpCodes : LoginStart(q, p, c)
    \/ \E q \in Q : LoginVerifyGet(q)
    \/ \E q \in Q : LoginVerifyCmp(q)
    \/ \E q \in Q : LoginRecordIncr(q)
    \/ \E q \in Q : LoginRecordFinish(q)
    \/ \E q \in Q : LoginClear(q)
    \/ \E q \in Q : LoginInvalidate(q)
    \/ \E q \in Q : LoginCreate(q)
    \/ \E p \in LoginPhones, c \in OtpCodes : LoginRequestOtp(p, c)
    \/ LoginTickAct

NextLogin == LoginSteps(LoginProcs)

SpecLogin == Init /\ [][NextLogin]_vars

\* VerifyLoginOtp calls one at a time
NextLoginSeq == LoginSteps({"r1"})

SpecLoginSeq == Init /\ [][NextLoginSeq]_vars

\* the tokens VerifyToken requests present: the serials of issued tokens, a
\* serial not issued yet, and 0, which is never issued
TokenInputs == 0..MaxLoginCalls

\* logins one at a time, and VerifyToken
NextSession ==
    \/ LoginSteps({"r1"})
    \/ \E t \in TokenInputs : VerifyToken(t)

SpecSession == Init /\ [][NextSession]_vars

\* the team management requests of the set Q of request slots
TeamSteps(Q) ==
    \/ \E q \in Q, op \in TeamOps, caller \in TeamUsers, target \in TeamUsers :
          \E newRole \in NewRoles(op) : TeamLookup(q, op, caller, target, newRole)
    \/ \E q \in Q : TeamGuard(q)
    \/ \E q \in Q : TeamExisting(q)
    \/ \E q \in Q : TeamWrite(q)

NextTeam == TeamSteps(TeamProcs)

SpecTeam == Init /\ [][NextTeam]_vars

\* team management requests one at a time
NextTeamSeq == TeamSteps({"r1"})

SpecTeamSeq == Init /\ [][NextTeamSeq]_vars

HaulerSteps(Q) ==
    \/ \E h \in HaulerIds : HaulerCreate(h)
    \/ \E q \in Q, op \in HaulerOps, tok \in HaulerTokens :
          \E v \in Vehicles(op), valid \in BOOLEAN, vpa \in VpaOutcomes(op) :
             HaulerLookup(q, op, tok, v, valid, vpa)
    \/ \E q \in Q : HaulerDupCheck(q)
    \/ \E q \in Q, smsOk \in BOOLEAN : HaulerWrite(q, smsOk)

NextHauler == HaulerSteps(HaulerProcs)

SpecHauler == Init /\ [][NextHauler]_vars

\* payment details: registrations, step 4 submissions with valid input and
\* AddPaymentDetails calls
NextPayment ==
    \/ \E h \in HaulerIds : HaulerCreate(h)
    \/ \E q \in HaulerProcs, tok \in HaulerTokens :
          HaulerLookup(q, "step4", tok, NoVal, TRUE, "ok")
    \/ \E q \in HaulerProcs : HaulerWrite(q, TRUE)
    \/ \E h \in HaulerIds : AddPaymentUnset(h)
    \/ \E h \in HaulerIds : AddPaymentCreate(h)

SpecPayment == Init /\ [][NextPayment]_vars

NextAgent ==
    \/ \E a \in AgentIds, z \in Zones : CreateAgent(a, z)
    \/ \E q \in AgentProcs, a \in AgentIds, z \in Zones, d \in AgentDates :
          ReassignScan(q, a, z, d)
    \/ \E q \in AgentProcs : ReassignClose(q)
    \/ \E q \in AgentProcs : ReassignCreate(q)

SpecAgent == Init /\ [][NextAgent]_vars

NextTraining ==
    \/ \E a \in AgentIds : CreateAgent(a, "z1")
    \/ \E q \in TrainProcs, op \in TrainOps, a \in AgentIds : TrainRead(q, op, a)
    \/ \E q \in TrainProcs : TrainUpdate(q)

SpecTraining == Init /\ [][NextTraining]_vars

\* first logins and PIN changes of agents that are trained and deactivated
NextAgentLogin ==
    \/ NextTraining
    \/ \E a \in AgentIds, pinOk \in BOOLEAN, expired \in BOOLEAN :
          FirstLogin(a, pinOk, expired)
    \/ \E a \in AgentIds, tokenOk \in BOOLEAN, valid \in BOOLEAN :
          SetPermanentPin(a, tokenOk, valid)

SpecAgentLogin == Init /\ [][NextAgentLogin]_vars

\* registrations one at a time (step 4 and submit), verified by concurrent
\* verifyHauler requests
NextAdmin ==
    \/ \E h \in HaulerIds : HaulerCreate(h)
    \/ \E op \in {"step4", "submit"}, tok \in HaulerTokens :
          HaulerLookup("r1", op, tok, NoVal, TRUE,
                       IF op = "step4" THEN "ok" ELSE NoVal)
    \/ \E smsOk \in BOOLEAN : HaulerWrite("r1", smsOk)
    \/ \E q \in AdminProcs, id \in AdminHaulerInputs, act \in VerifyActions :
          \E by \in Admins, reason \in BOOLEAN :
             VerifyUpdate(q, id, act, by, reason)
    \/ \E q \in AdminProcs, smsOk \in BOOLEAN : VerifyNotify(q, smsOk)

SpecAdmin == Init /\ [][NextAdmin]_vars

NextReg ==
    \/ \E q \in RegProcs, e \in BuyerEmails, p \in BuyerPhones :
          \E valid \in BOOLEAN : RegisterEmailCheck(q, e, p, valid)
    \/ \E q \in RegProcs : RegisterPhoneCheck(q)
    \/ \E q \in RegProcs : RegisterStore(q)
    \/ \E q \in RegProcs, admitted \in BOOLEAN : RegisterOtp(q, admitted)
    \/ \E p \in BuyerPhones, otpOk \in BOOLEAN : VerifyBuyerOtp(p, otpOk)

SpecReg == Init /\ [][NextReg]_vars

LoginBuyerSteps(Q) ==
    \/ \E q \in Q, e \in AcctEmails, pw \in Passwords : BuyerLoginRead(q, e, pw)
    \/ \E q \in Q : BuyerLoginUpdate(q)
    \/ \E q \in Q : BuyerLoginSession(q)

PinLoginSteps(Q) ==
    \/ \E q \in Q, u \in AcctUserIds, pin \in Pins : PinLoginRead(q, u, pin)
    \/ \E q \in Q : PinLoginUpdate(q)
    \/ \E q \in Q : PinLoginInvalidate(q)
    \/ \E q \in Q : PinLoginSession(q)

\* password and PIN logins, concurrent, as time passes
NextBuyerLogin ==
    \/ LoginBuyerSteps(AcctProcs)
    \/ PinLoginSteps(AcctProcs)
    \/ AcctTick

SpecBuyerLogin == Init /\ [][NextBuyerLogin]_vars

\* password resets, concurrent, among password logins, as time passes
NextReset ==
    \/ \E q \in AcctProcs, e \in AcctEmails, dbOk \in BOOLEAN :
          ForgotRead(q, e, dbOk)
    \/ \E q \in AcctProcs, dbOk \in BOOLEAN : ForgotInvalidate(q, dbOk)
    \/ \E q \in AcctProcs, dbOk \in BOOLEAN : ForgotInsert(q, dbOk)
    \/ \E q \in AcctProcs, t \in ResetTokenInputs, valid \in BOOLEAN :
          ResetSelect(q, t, "pw1", valid)
    \/ \E q \in AcctProcs : ResetUpdateUser(q)
    \/ \E q \in AcctProcs : ResetMarkUsed(q)
    \/ \E q \in AcctProcs : ResetInvalidate(q)
    \/ \E q \in AcctProcs : ResetSession(q)
    \/ \E q \in AcctProcs : BuyerLoginRead(q, "buyer@x.io", "pw0")
    \/ \E q \in AcctProcs : BuyerLoginUpdate(q)
    \/ \E q \in AcctProcs : BuyerLoginSession(q)
    \/ AcctTick

SpecReset == Init /\ [][NextReset]_vars

NextInvite ==
    \/ \E q \in InviteProcs, caller \in TeamUsers, e \in InviteEmails :
          \E valid \in BOOLEAN : InviteDupCheck(q, caller, e, valid)
    \/ \E q \in InviteProcs : InviteAuth(q)
    \/ \E q \in InviteProcs : InviteCreate(q)
    \/ \E q \in InviteProcs, t \in InviteTokenInputs, valid \in BOOLEAN :
          AcceptValidate(q, t, valid)
    \/ \E q \in InviteProcs : AcceptCommit(q)
    \/ \E q \in InviteProcs, caller \in TeamUsers, id \in InviteIds :
          ResendAuth(q, caller, id)
    \/ \E q \in InviteProcs : ResendFind(q)
    \/ \E q \in InviteProcs : ResendWrite(q)
    \/ InviteTick

SpecInvite == Init /\ [][NextInvite]_vars

NextPin ==
    \/ \E tokenOk \in BOOLEAN, pin \in PinInputs, confirm \in PinInputs :
          AgentSetPin(tokenOk, pin, confirm)
    \/ \E pin \in PinInputs : FarmerSetPin(pin)

SpecPin == Init /\ [][NextPin]_vars

(***************************************************************************)
(* Claims about the OTP engine.                                            *)
(***************************************************************************)
\* the admitted calls of phone p whose admission falls in [s, s + 600)
InWindow(p, s) ==
    {i \in DOMAIN genLog[p] :
        s <= genLog[p][i].at /\ genLog[p][i].at < s + RATE_LIMIT_WINDOW_SECONDS}

\* the admitted calls of phone p counted by the e-th otp:rate:<p> key
InEpoch(p, e) == {i \in DOMAIN genLog[p] : genLog[p][i].epoch = e}

\* C1 as stated: every 600-second window, whatever its start, holds at most
\* 3 code-returning generateOTP calls of a phone (a window with the most
\* calls can be taken to start at one of the calls).
C1_SlidingWindow ==
    \A p \in OtpPhones : \A i \in DOMAIN genLog[p] :
        Cardinality(InWindow(p, genLog[p][i].at)) <= MAX_ATTEMPTS_PER_WINDOW

\* C1 amended: at most 3 code-returning generateOTP calls of a phone are
\* counted by any one otp:rate:<phone> key, from the increment that creates
\* it to its expiry.
C1_PerCounterKey ==
    \A p \in OtpPhones : \A e \in 1..rateEpoch[p] :
        Cardinality(InEpoch(p, e)) <= MAX_ATTEMPTS_PER_WINDOW

\* a fourth call was refused by a live counter key that admitted three
C1_Witness ==
    \E p \in OtpPhones :
        /\ rateCount[p] > MAX_ATTEMPTS_PER_WINDOW
        /\ Live(rateExpiry[p], now)
        /\ Cardinality(InEpoch(p, rateEpoch[p])) = MAX_ATTEMPTS_PER_WINDOW

\* C4: no issued code makes verifyOTP return true more than once, also
\* when verifyOTP calls for the same phone and code run concurrently.
C4_SingleUse ==
    \A p \in OtpPhones : \A i, j \in DOMAIN wins[p] :
        i # j => wins[p][i] # wins[p][j]

(***************************************************************************)
(* Claims about login lockout and sessions.                                *)
(***************************************************************************)

\* C2: once the third failed VerifyLoginOtp has locked a phone, the phone is
\* locked for exactly 1800 s from that failure, whatever other calls arrive:
\* locked at every instant before the 1800 s are over, and not after.
C2_LockedFor1800 ==
    \A p \in LoginPhones :
        lockDue[p] # 0 => (LockActive(p) <=> now < lockDue[p])

\* C3: a VerifyLoginOtp call that arrives while the lockout of its phone is
\* active is answered ACCOUNT_LOCKED whatever code it carries, never gets
\* past the lockout check, and creates no session.
C3_LockedRejects ==
    /\ lastLogin.lockedAtStart =>
          lastLogin.result = "ACCOUNT_LOCKED" /\ lastLogin.sid = 0
    /\ \A q \in LoginProcs : ~loginProc[q].lockedAtStart

\* a locked phone was answered ACCOUNT_LOCKED on the code the store holds
C3_Witness ==
    /\ lastLogin.lockedAtStart
    /\ lastLogin.codeCurrent
    /\ lastLogin.result = "ACCOUNT_LOCKED"

\* C7: when VerifyLoginOtp returns a session, that session is the only
\* active session of the user.
C7_OnlyActiveSession ==
    lastLogin.result = "OK" => lastLogin.sole

\* C8: VerifyToken(t) answers valid exactly when the SHA-256 of t is the
\* hash of a session row that is not deleted and not expired.
C8_ValidIffActiveRow ==
    tokenCheck.asked => (tokenCheck.valid <=> tokenCheck.active)

(***************************************************************************)
(* Claims about team management.                                           *)
(***************************************************************************)

\* C5: the organization, which starts with an ACTIVE ADMIN, has at least one
\* membership with role ADMIN and status ACTIVE after any sequence of
\* updateMemberRole, deactivateMember and deleteMember calls.
C5_ActiveAdminRemains == CountActiveAdmins(members) > 0

\* C6: the last-admin check and the write it guards act as one step: a
\* request that passed the check and then took a membership out of the
\* ACTIVE ADMIN set leaves at least one ACTIVE ADMIN (two concurrent
\* removals of the two ACTIVE ADMINs never both succeed).
C6_CheckedRemovalLeavesAdmin ==
    (lastTeam.ok /\ lastTeam.checked /\ lastTeam.removedAdmin)
        => lastTeam.adminsLeft > 0

(***************************************************************************)
(* Claims about hauler registration.                                       *)
(***************************************************************************)

\* C9: a step request (2, 3 or 4) is applied only to a profile whose
\* currentStep is the step's number or one less.
C9_NoSkipping ==
    (lastHauler.ok /\ lastHauler.op \in {"step2", "step3", "step4"})
        => lastHauler.before \in {StepNumber[lastHauler.op] - 1,
                                  StepNumber[lastHauler.op]}

\* C10: once submitRegistration has answered success for a token, the
\* profile is PENDING_VERIFICATION with no token, and every step or submit
\* request that presents the token afterwards finds no profile and fails
\* without getting to a write.
C10_TokenConsumed ==
    /\ \A h \in HaulerIds : submitted[h] =>
          /\ profiles[h].verificationStatus = "PENDING_VERIFICATION"
          /\ profiles[h].token = NoVal
    /\ lastHauler.late =>
          /\ ~lastHauler.ok
          /\ lastHauler.message = "Registration session not found"
    /\ \A q \in HaulerProcs : ~haulerProc[q].late

\* a step-2 request presented the token of a submitted registration
C10_Witness ==
    /\ lastHauler.late
    /\ lastHauler.op = "step2"
    /\ ~lastHauler.ok

\* C11: no two hauler profiles past step 1 hold the same vehicle number,
\* concurrent step-2 submissions of one number included
C11_UniqueVehicleNumber ==
    \A g \in HaulerIds : \A h \in HaulerIds \ {g} :
        (profiles[g].currentStep > 1 /\ profiles[h].currentStep > 1)
            => profiles[g].vehicleNumber # profiles[h].vehicleNumber

\* two step-2 submissions of one number both passed vehicleNumberExists; the
\* second update was refused by the index
C11_Witness ==
    /\ lastHauler.op = "step2"
    /\ lastHauler.message = "Failed to save vehicle details"
    /\ \E h \in HaulerIds : /\ profiles[h].currentStep > 1
                             /\ profiles[h].vehicleNumber \in VehicleNumbers

\* C12: every agent has exactly one AgentZoneAssignment row with a NULL
\* effectiveTo, whatever reassignZone calls have run, concurrent ones included
C12_OneOpenAssignment ==
    \A a \in AgentIds : AgentExists(a) => Cardinality(OpenRows(a)) = 1

\* C13: of two racing verifyHauler requests for one hauler, the later one,
\* whose update finds the row no longer PENDING_VERIFICATION, answers
\* INVALID_STATE, writes nothing and sends no notification
C13_LaterVerifyRefused ==
    (lastAdmin.raced /\ lastAdmin.before \in {"ACTIVE", "REJECTED"})
        => /\ ~lastAdmin.ok
           /\ lastAdmin.message = "INVALID_STATE"
           /\ ~lastAdmin.wrote
           /\ ~lastAdmin.notified

\* C14: of two concurrent RegisterBuyer calls with the same email and
\* different phones only one reaches the OTP stage: the one answered after
\* the other reached it (it is to answer EMAIL_EXISTS) does not
C14_OneReachesOtpStage == lastReg.rivalWon => ~lastReg.ok

\* C15: a login by password or by PIN that reads a user row whose
\* locked-until is in the future is answered ACCOUNT_LOCKED, whether or not
\* the credential is right, and goes no further (it creates no session)
C15_LockedCannotLogin ==
    /\ \A q \in AcctProcs : ~acctProc[q].lockedAtRead
    /\ (lastAcct.op \in {"login", "pin"} /\ lastAcct.lockedAtRead)
          => (~lastAcct.ok /\ lastAcct.error = "ACCOUNT_LOCKED")

\* a locked user presents the right password
C15_Witness ==
    /\ lastAcct.op = "login"
    /\ lastAcct.lockedAtRead
    /\ lastAcct.good
    /\ lastAcct.error = "ACCOUNT_LOCKED"

\* C16: a reset token is spent once its used-at is set: resetPassword
\* answers success only with a token that was unused when it marked it, so
\* not a second time (concurrent calls included) and not after a newer
\* forgotPassword has set its used-at
C16_SpentTokenRefused ==
    (lastAcct.op = "reset" /\ lastAcct.ok) => lastAcct.fresh

\* C17: after a successful resetPassword for a user, every session of that
\* user that existed before the reset is soft-deleted
C17_PriorSessionsDeleted ==
    (lastAcct.op = "reset" /\ lastAcct.ok)
        => \A i \in 1..lastAcct.prior :
              acctSessions[i].user = lastAcct.user => acctSessions[i].deleted

\* a reset succeeded for a user who had a session before it
C17_Witness ==
    /\ lastAcct.op = "reset"
    /\ lastAcct.ok
    /\ \E i \in 1..lastAcct.prior : acctSessions[i].user = lastAcct.user

\* C18: a team management call succeeds only when its caller is a member
\* with role ADMIN and status ACTIVE; an INACTIVE or PENDING admin is refused
C18_OnlyActiveAdminActs ==
    (lastTeam.op # NoVal /\ ~lastTeam.callerOk) => ~lastTeam.ok

\* C19: an invitation leads to at most one successful acceptInvitation,
\* concurrent accepts of one token included, and an invitation that is
\* accepted or expired when acceptInvitation reads it is not accepted
C19_AcceptedOnce ==
    /\ \A i \in DOMAIN invites : invites[i].accepts <= 1
    /\ \A q \in InviteProcs : ~inviteProc[q].stale
    /\ (lastInvite.op = "accept" /\ (lastInvite.stale \/ lastInvite.repeat))
          => ~lastInvite.ok

\* of two concurrent accepts of one invitation the second is refused
C19_Witness ==
    /\ lastInvite.op = "accept"
    /\ lastInvite.repeat
    /\ ~lastInvite.stale
    /\ ~lastInvite.ok

\* C20: there is at most one pending invitation for an email of the
\* organization, concurrent inviteTeamMember calls included
C20_OnePendingInvitation ==
    \A e \in InviteEmails : Cardinality(PendingInvites(e)) <= 1

\* C21: every TeamRoleChange row records as oldRole the role the membership
\* held immediately before the update it was committed with
C21_AuditOldRole ==
    \A i \in DOMAIN roleChanges : roleChanges[i].oldRole = roleChanges[i].before

\* C22: every user has at most one PaymentDetails row with the primary flag
\* set
C22_OnePrimary == \A h \in HaulerIds : profiles[h].payments <= 1

\* C24: a step 4 whose UPI provider call fails or gets no answer does not
\* succeed
C24_UpiOutageFailsStep ==
    (lastHauler.op = "step4" /\ lastHauler.vpa \in {"error", "unreachable"})
        => ~lastHauler.ok

\* C28: a step 2 submitted again for a profile at currentStep 2, with the
\* vehicle number the profile holds, succeeds
C28_ResubmitSucceeds ==
    (lastHauler.op = "step2" /\ lastHauler.resubmit) => lastHauler.ok

\* C30: a submitRegistration that has moved the profile to
\* PENDING_VERIFICATION answers success
C30_SmsFailureKeepsSuccess ==
    (lastHauler.op = "submit" /\ lastHauler.wrote) => lastHauler.ok

\* C23: a completeTraining applied to an agent whose training is complete
\* (status ACTIVE) answers "Training already completed" with status ACTIVE
\* and writes nothing, and one applied to an agent in TRAINING leaves the
\* status ACTIVE
C23_CompleteTrainingIdempotent ==
    /\ (lastTrain.op = "completeTraining" /\ lastTrain.before = "ACTIVE")
          => /\ lastTrain.ok
             /\ lastTrain.message = "Training already completed"
             /\ lastTrain.status = "ACTIVE"
             /\ ~lastTrain.wrote
    /\ (lastTrain.op = "completeTraining" /\ lastTrain.before = "TRAINING")
          => /\ lastTrain.ok
             /\ lastTrain.wrote
             /\ agentStatus[lastTrain.agent].status = "ACTIVE"

\* the second completeTraining of an agent, after the first set ACTIVE
C23_Witness ==
    /\ lastTrain.op = "completeTraining"
    /\ lastTrain.before = "ACTIVE"
    /\ lastTrain.message = "Training already completed"
    /\ agentStatus[lastTrain.agent].completedAt # 0

\* C25 as stated: the third consecutive wrong code, like the first two, is
\* answered INVALID_OTP, with remainingAttempts 0
C25_ThirdInvalidOtp ==
    (lastLogin.failed /\ lastLogin.prior = 2)
        => (lastLogin.result = "INVALID_OTP" /\ lastLogin.remaining = 0)

\* C25 amended: with VerifyLoginOtp calls one at a time, a wrong code is
\* answered INVALID_OTP with remainingAttempts 2 when no failure is recorded
\* for the phone and 1 when one is, and ACCOUNT_LOCKED with lockedUntil 1800
\* seconds ahead when two are, the phone being locked from then on
C25_ThreeFailuresLock ==
    lastLogin.failed =>
        /\ lastLogin.prior = 0 =>
              lastLogin.result = "INVALID_OTP" /\ lastLogin.remaining = 2
        /\ lastLogin.prior = 1 =>
              lastLogin.result = "INVALID_OTP" /\ lastLogin.remaining = 1
        /\ lastLogin.prior = 2 =>
              /\ lastLogin.result = "ACCOUNT_LOCKED"
              /\ lastLogin.lockedUntil = now + 1800
              /\ IsLocked(lastLogin.phone)

\* the third consecutive wrong code was answered ACCOUNT_LOCKED
C25_Witness ==
    /\ lastLogin.failed
    /\ lastLogin.prior = 2
    /\ lastLogin.result = "ACCOUNT_LOCKED"

\* C26: every stored permanent PIN is 4 decimal digits and is neither a run
\* of 4 consecutive digits, up or down, nor one digit repeated
C26_StoredPinObeysRules ==
    \A u \in PinUsers :
        pinHash[u] # NoPinHash =>
            LET pin == pinHash[u][2]
            IN /\ Len(pin) = 4
               /\ \A i \in 1..Len(pin) : pin[i] \in 0..9
               /\ \A k \in 0..6 : pin # Ascending(k) /\ pin # Descending(k)
               /\ \A d \in 0..9 : pin # Repeated(d)

\* C27: every ForgotPassword call with an email is answered success with the
\* same message, whether a buyer has the email or not and whether the
\* database failed or not
C27_ForgotSameResponse ==
    lastAcct.op = "forgot" =>
        /\ lastAcct.ok
        /\ lastAcct.message = "If this email exists, we've sent a reset link."
        /\ lastAcct.error = NoVal

\* a ForgotPassword for an existing buyer whose token could not be stored
C27_Witness ==
    /\ lastAcct.op = "forgot"
    /\ lastAcct.failed
    /\ lastAcct.user # NoVal
    /\ lastAcct.ok

\* C29: a RegisterBuyer whose OTP the rate limit refused answers
\* RESOURCE_EXHAUSTED, not success
C29_RateExceededRefused ==
    lastReg.rateExceeded =>
        (~lastReg.ok /\ lastReg.error = "RESOURCE_EXHAUSTED")

(***************************************************************************)
(* Claims about sessions, registration bundles and hauler verification.    *)
(***************************************************************************)

\* C31: at every moment a user has at most one session row that is neither
\* soft-deleted nor expired, also while two successful logins of the user
\* are processed at the same time.
C31_AtMostOneActiveSession ==
    \A p \in LoginPhones :
        Cardinality({i \in ActiveSessions(sessions, p) :
                        sessions[i].expiresAt > now}) <= 1

\* C32: the account VerifyBuyerOtp creates is built from the bundle written
\* by the RegisterBuyer call that generated the verified OTP
C32_BundleOfVerifiedOtp ==
    lastReg.created => lastReg.bundleBy = lastReg.otpBy

\* C33: a verifyHauler request that changed a profile found it
\* PENDING_VERIFICATION: a profile that is IN_PROGRESS, ACTIVE or REJECTED is
\* not moved to ACTIVE or REJECTED
C33_OnlyPendingVerified ==
    lastAdmin.wrote => lastAdmin.before = "PENDING_VERIFICATION"

\* C34: a profile whose verificationStatus is PENDING_VERIFICATION holds a
\* real vehicle number and driving-license number (not the placeholders of
\* createHaulerUser) and its user has a PaymentDetails row
C34_PendingIsComplete ==
    \A h \in HaulerIds :
        profiles[h].verificationStatus = "PENDING_VERIFICATION" =>
            /\ profiles[h].vehicleNumber # TempVehicleNumber[h]
            /\ profiles[h].dlNumber # "TEMP"
            /\ profiles[h].payments > 0

\* C35: no step of the program lowers the currentStep of a hauler profile
C35_StepNeverDecreases ==
    [][\A h \in HaulerIds :
          profiles'[h].currentStep >= profiles[h].currentStep]_vars

(***************************************************************************)
(* Claims about the buyer lockout.                                         *)
(***************************************************************************)

\* C36: since the last successful login of a buyer, at most 5 wrong
\* passwords are compared with the buyer's password hash before the
\* account is locked, also when the failing LoginBuyer calls overlap
C36_FiveGuessesAtMost ==
    \A u \in AcctUsers : compared[u] <= MAX_LOGIN_ATTEMPTS

\* C37: the first failed login after a lockout has expired (it read an
\* expired locked-until instant) does not lock the account again
C37_CountingRestartsAfterLockout ==
    (lastAcct.op = "login" /\ lastAcct.expiredAtRead /\ ~lastAcct.good)
        => lastAcct.error # "ACCOUNT_LOCKED"

(***************************************************************************)
(* Claims about deactivated agents.                                        *)
(***************************************************************************)

\* C38: firstLogin and setPin do not succeed (they hand out no token) for an
\* agent whose status is INACTIVE
C38_InactiveGetsNoToken ==
    (lastTrain.op \in {"firstLogin", "setPin"} /\ lastTrain.before = "INACTIVE")
        => ~lastTrain.ok

\* C39: completeTraining reports the dashboard unlocked only when the
\* agent's status is ACTIVE after the call, and a completeTraining that
\* finds the agent INACTIVE neither reports it unlocked nor writes
C39_UnlockedOnlyWhenActive ==
    lastTrain.op = "completeTraining" =>
        /\ lastTrain.dashboardUnlocked =>
              agentStatus[lastTrain.agent].status = "ACTIVE"
        /\ lastTrain.before = "INACTIVE" =>
              (~lastTrain.dashboardUnlocked /\ ~lastTrain.wrote)

(***************************************************************************)
(* Claims about the expiry of the OTP rate counter.                        *)
(***************************************************************************)

\* C40: whenever otp:rate:<phone> exists it carries a TTL, and the TTL runs
\* out no later than 600 seconds after the first request the key counted,
\* so that a refused phone is admitted again by then
C40_CounterCarriesTtl ==
    \A p \in OtpPhones :
        (rateCount[p] > 0 /\ Live(rateExpiry[p], now)) =>
            /\ rateExpiry[p] # NoTTL
            /\ \A i \in InEpoch(p, rateEpoch[p]) :
                  rateExpiry[p] <= genLog[p][i].at + RATE_LIMIT_WINDOW_SECONDS
====
